---- MODULE Spec2Model ----
(***************************************************************************)
(* Model of ranger's terminal inline-image layer (ranger/ext/img_display): *)
(* the displayer registry, the kitty command framing (_format_cmd_str) and *)
(* the kitty graphics backend (late initialisation, draw, clear, quit).    *)
(***************************************************************************)
EXTENDS Integers, Sequences, FiniteSets, TLC

VARIABLES
    \* displayer.py: the registry and the outcome of the last lookup
    IMAGE_DISPLAYER_REGISTRY, lookup,
    \* _format_cmd_str applied to an argument tuple: the call and its fragments
    fmtCall, fmtOut,
    \* KittyImageDisplayer instance and its terminal
    constructed, needs_late_init, stream, temp_file_dir, backend,
    pix_row, pix_col, image_id,
    stdin, out, nread, result, negotiated, hist, everUnsupported,
    \* SixelImageDisplayer instance, the files it stats, the last call and
    \* what the calls so far did
    cache, win, fs, sout, sres, sops, nconv, sinceEmit,
    \* W3MImageDisplayer._get_font_dimensions applied to an argument tuple
    w3mFontCall, w3mFontOut,
    \* W3MImageDisplayer instance, its companion processes, the I/O of the
    \* last call and its outcome
    w3m_is_initialized, w3m_binary_path, w3m_process, w3m_alive, w3m_spawned,
    w3m_io, w3m_res,
    \* UeberzugImageDisplayer instance, its companion processes, the watchdog
    \* timer of quit and the position of the thread inside quit
    u_is_initialized, u_process, u_alive, u_stdin_closed, u_spawned,
    u_termed, u_killed, u_timer, u_pc, u_io, u_res,
    \* ITerm2ImageDisplayer: the last call and what it wrote
    it_res

registryVars == <<IMAGE_DISPLAYER_REGISTRY, lookup>>
fmtVars == <<fmtCall, fmtOut>>
kittyVars == <<constructed, needs_late_init, stream, temp_file_dir, backend,
               pix_row, pix_col, image_id,
               stdin, out, nread, result, negotiated, hist, everUnsupported>>
sixelVars == <<cache, win, fs, sout, sres, sops, nconv, sinceEmit>>
w3mFontVars == <<w3mFontCall, w3mFontOut>>
w3mVars == <<w3m_is_initialized, w3m_binary_path, w3m_process, w3m_alive,
             w3m_spawned, w3m_io, w3m_res>>
ueberzugVars == <<u_is_initialized, u_process, u_alive, u_stdin_closed,
                  u_spawned, u_termed, u_killed, u_timer, u_pc, u_io, u_res>>
iterm2Vars == <<it_res>>
otherVars == <<w3mVars, ueberzugVars, iterm2Vars>>
vars == <<registryVars, fmtVars, kittyVars, sixelVars, w3mFontVars, otherVars>>

\* everything but one component
notRegistry == <<fmtVars, kittyVars, sixelVars, w3mFontVars, otherVars>>
notFmt == <<registryVars, kittyVars, sixelVars, w3mFontVars, otherVars>>
notKitty == <<registryVars, fmtVars, sixelVars, w3mFontVars, otherVars>>
notSixel == <<registryVars, fmtVars, kittyVars, w3mFontVars, otherVars>>
notW3MFont == <<registryVars, fmtVars, kittyVars, sixelVars, otherVars>>
notW3M == <<registryVars, fmtVars, kittyVars, sixelVars, w3mFontVars,
            ueberzugVars, iterm2Vars>>
notUeberzug == <<registryVars, fmtVars, kittyVars, sixelVars, w3mFontVars,
                 w3mVars, iterm2Vars>>
notITerm2 == <<registryVars, fmtVars, kittyVars, sixelVars, w3mFontVars,
               w3mVars, ueberzugVars>>

----------------------------------------------------------------------------
(* Bounds *)

\* number of draw/clear/quit calls made on one kitty instance
MaxOps == 3
\* payload lengths go up to MaxChunks * max_slice_len + 1
MaxChunks == 2
\* bytes the terminal may have sent that no read has consumed yet
MaxPending == 11
\* number of draw/invalidate/quit calls made on one sixel instance
MaxSixelOps == 3
\* number of w3mimgdisplay processes one W3M instance spawns
MaxW3MProcs == 3
\* number of ueberzug processes one Ueberzug instance spawns
MaxUeberzugProcs == 2

----------------------------------------------------------------------------
(* bytes helpers: a bytes value is a sequence of one-character strings,    *)
(* "ESC" standing for the byte 0x1b                                        *)

\* b'...' in resp
Contains(s, sub) ==
    \E i \in 0..(Len(s) - Len(sub)) : SubSeq(s, i + 1, i + Len(sub)) = sub

\* resp.startswith(prefix)
StartsWith(s, prefix) ==
    /\ Len(s) >= Len(prefix)
    /\ SubSeq(s, 1, Len(prefix)) = prefix

\* the least element of a non-empty set of integers
Least(S) == CHOOSE n \in S : \A k \in S : n <= k

\* resp.find(sub): the lowest 0-based index, -1 when absent
Find(s, sub) ==
    LET at == {i \in 0..(Len(s) - Len(sub)) : SubSeq(s, i + 1, i + Len(sub)) = sub}
    IN  IF at = {} THEN -1 ELSE Least(at)

protocol_start == <<"ESC", "_", "G">>
protocol_end == <<"ESC", "\\">>
DA1_start == <<"ESC", "[", "?">>
OK_token == <<"O", "K">>
EBADF_token == <<"E", "B", "A", "D", "F">>

----------------------------------------------------------------------------
(* displayer.py: registry *)

BuiltinRegistry ==
    [k \in {"kitty", "ueberzug", "urxvt", "urxvt-full", "terminology",
            "sixel", "iterm2", "w3m"} |->
        CASE k = "kitty" -> "KittyImageDisplayer"
          [] k = "ueberzug" -> "UeberzugImageDisplayer"
          [] k = "urxvt" -> "URXVTImageDisplayer"
          [] k = "urxvt-full" -> "URXVTImageFSDisplayer"
          [] k = "terminology" -> "TerminologyImageDisplayer"
          [] k = "sixel" -> "SixelImageDisplayer"
          [] k = "iterm2" -> "ITerm2ImageDisplayer"
          [] k = "w3m" -> "W3MImageDisplayer"]

\* nicknames a plugin registers under ("None": no nickname given)
Nicknames == {"None", "kitty", "mine"}
PluginClasses == {"MyDisplayer", "OtherDisplayer", "KittyImageDisplayer"}
LookupKeys == DOMAIN BuiltinRegistry \cup {"mine", "MyDisplayer", "bogus", ""}

NoLookup == [key |-> "None", known |-> FALSE, outcome |-> "none", instance |-> "None"]

InitRegistry ==
    /\ IMAGE_DISPLAYER_REGISTRY = BuiltinRegistry
    /\ lookup = NoLookup

\* the factory of the defaultdict: raises instead of returning a class
fallback_image_displayer_lazy == [raised |-> "None", class |-> "UnsupportedDisplayer"]
fallback_image_displayer == [raised |-> "ImgDisplayUnsupportedException", class |-> "None"]

\* registry[key] of a defaultdict: a missing key calls the factory; the
\* key is stored only when the factory returns
RegistryGet(reg, key) ==
    IF key \in DOMAIN reg
    THEN [raised |-> "None", class |-> reg[key], reg |-> reg]
    ELSE LET f == fallback_image_displayer
         IN  IF f.raised # "None"
             THEN [raised |-> f.raised, class |-> "None", reg |-> reg]
             ELSE [raised |-> "None", class |-> f.class,
                   reg |-> [k \in DOMAIN reg \cup {key} |->
                               IF k = key THEN f.class ELSE reg[k]]]

register_image_displayer(nickname, image_displayer_class) ==
    LET registry_key == IF nickname # "None" /\ nickname # ""
                        THEN nickname ELSE image_displayer_class
    IN  /\ IMAGE_DISPLAYER_REGISTRY' =
              [k \in DOMAIN IMAGE_DISPLAYER_REGISTRY \cup {registry_key} |->
                  IF k = registry_key THEN image_displayer_class
                  ELSE IMAGE_DISPLAYER_REGISTRY[k]]
        /\ UNCHANGED <<lookup, notRegistry>>

get_image_displayer(registry_key) ==
    LET r == RegistryGet(IMAGE_DISPLAYER_REGISTRY, registry_key)
    IN  /\ IMAGE_DISPLAYER_REGISTRY' = r.reg
        /\ lookup' = [key |-> registry_key,
                      known |-> registry_key \in DOMAIN IMAGE_DISPLAYER_REGISTRY,
                      outcome |-> IF r.raised = "None" THEN "returned" ELSE r.raised,
                      instance |-> r.class]
        /\ UNCHANGED notRegistry

----------------------------------------------------------------------------
(* KittyImageDisplayer._format_cmd_str *)

\* default of the max_slice_len parameter
max_slice_len == 2048

\* one yielded command: protocol_start + central_blk [+ ',m=<m>'] + ';'
\* [+ payload block] + protocol_end; m = "" when no m key is appended
Frame(cmd, m, payload_blk) ==
    [start |-> protocol_start, cmd |-> cmd, m |-> m,
     payload |-> payload_blk, end |-> protocol_end]

\* payload[:n] and payload[n:]
Take(payload, n) == SubSeq(payload, 1, n)
Drop(payload, n) == SubSeq(payload, n + 1, Len(payload))

\* the while loop followed by the final yield
RECURSIVE SliceLoop_ge(_, _, _)
SliceLoop_ge(cmd, payload, max_len) ==
    IF Len(payload) >= max_len
    THEN <<Frame(cmd, "1", Take(payload, max_len))>>
            \o SliceLoop_ge(cmd, Drop(payload, max_len), max_len)
    ELSE <<Frame(cmd, "0", payload)>>

RECURSIVE SliceLoop_skip(_, _, _)
SliceLoop_skip(cmd, payload, max_len) ==
    IF Len(payload) > max_len
    THEN <<Frame(cmd, "1", Take(payload, max_len))>>
            \o SliceLoop_skip(cmd, Drop(payload, max_len + 1), max_len)
    ELSE <<Frame(cmd, "0", payload)>>

RECURSIVE SliceLoop(_, _, _)
SliceLoop(cmd, payload, max_len) ==
    IF Len(payload) > max_len
    THEN <<Frame(cmd, "1", Take(payload, max_len))>>
            \o SliceLoop(cmd, Drop(payload, max_len), max_len)
    ELSE <<Frame(cmd, "0", payload)>>

\* has_payload = FALSE models payload=None
_format_cmd_str(cmd, has_payload, payload, max_len) ==
    IF has_payload
    THEN SliceLoop(cmd, payload, max_len)
    ELSE <<Frame(cmd, "", <<>>)>>

\* the fragment payloads joined in emission order
RECURSIVE JoinPayloads(_)
JoinPayloads(frags) ==
    IF frags = <<>> THEN <<>>
    ELSE Head(frags).payload \o JoinPayloads(Tail(frags))

(* inputs of the framing check *)
PayloadLens ==
    {n \in 0..(MaxChunks * max_slice_len + 1) :
        \E k \in 0..MaxChunks : \E d \in {-1, 0, 1} : n = k * max_slice_len + d}
\* payload bytes depend on position, so that lost or reordered bytes show
MkPayload(n, seed) == [i \in 1..n |-> (i * seed) % 251]
FmtCmds == {[a |-> a, i |-> i] : a \in {"q", "T", "d"}, i \in 0..1}
FmtCalls ==
    {[cmd |-> c, has_payload |-> TRUE, payload |-> MkPayload(n, sd), done |-> FALSE] :
        c \in FmtCmds, n \in PayloadLens, sd \in {1, 7}}
    \cup {[cmd |-> c, has_payload |-> FALSE, payload |-> <<>>, done |-> FALSE] :
        c \in FmtCmds}

IdleFmt ==
    /\ fmtCall = [cmd |-> [a |-> "q", i |-> 0], has_payload |-> FALSE,
                  payload |-> <<>>, done |-> TRUE]
    /\ fmtOut = <<>>

InitFmt ==
    /\ fmtCall \in FmtCalls
    /\ fmtOut = <<>>

FormatCmdStr ==
    /\ ~fmtCall.done
    /\ fmtOut' = _format_cmd_str(fmtCall.cmd, fmtCall.has_payload,
                                 fmtCall.payload, max_slice_len)
    /\ fmtCall' = [fmtCall EXCEPT !.done = TRUE]
    /\ UNCHANGED notFmt

----------------------------------------------------------------------------
(* KittyImageDisplayer: the terminal *)

\* a graphics-protocol response ESC _G i=1;<body> ESC \
KittyReply(body) == protocol_start \o <<"i", "=", "1", ";">> \o body \o protocol_end
\* the primary device attributes response ESC [ ? 6 2 ; c
DA1_reply == DA1_start \o <<"6", "2", ";", "c">>
EINVAL_token == <<"E", "I", "N", "V", "A", "L">>

\* what the terminal sends after the support query and the DA1 query
NegScripts ==
    { DA1_reply,
      KittyReply(OK_token) \o DA1_reply,
      KittyReply(EBADF_token) \o DA1_reply,
      KittyReply(EINVAL_token) \o DA1_reply,
      \* a key typed while the query is in flight
      <<"j">> \o KittyReply(OK_token) \o DA1_reply,
      \* the two responses in the other order
      DA1_reply \o KittyReply(OK_token),
      \* a device-control response of another protocol
      <<"ESC", "P", "O", "K">> \o protocol_end \o DA1_reply,
      \* a graphics response cut off before its end marker
      protocol_start \o <<"i", "=", "1", ";">> \o OK_token \o DA1_reply }

\* what the terminal sends after a transmit command
AckScripts ==
    { KittyReply(OK_token),
      KittyReply(EINVAL_token),
      KittyReply(EINVAL_token) \o KittyReply(OK_token) }

\* struct winsize as the ioctl returns it: rows, columns, x pixels, y pixels
WinSizes == { <<50, 100, 800, 800>>, <<24, 80, 0, 0>>, <<0, 0, 0, 0>> }

Images ==
    { [readable |-> FALSE, width |-> 0, height |-> 0, bands |-> 3],
      [readable |-> TRUE, width |-> 10, height |-> 10, bands |-> 3],
      [readable |-> TRUE, width |-> 4000, height |-> 3000, bands |-> 4] }

\* cell boxes (width, height) passed to draw
Boxes == { <<100, 100>> }

\* images and cell boxes that exercise the resize: wider than the box, taller
\* than the box, inside it
ResizeImages ==
    { [readable |-> TRUE, width |-> 10, height |-> 10, bands |-> 3],
      [readable |-> TRUE, width |-> 4000, height |-> 3000, bands |-> 4],
      [readable |-> TRUE, width |-> 1000, height |-> 3000, bands |-> 3],
      [readable |-> TRUE, width |-> 197, height |-> 199, bands |-> 3] }
ResizeBoxes == { <<100, 100>>, <<1, 1>>, <<30, 2>> }

\* base64 text of the pixel data or of the spooled file's path
DrawPayloads == { MkPayload(n, 1) : n \in {4, max_slice_len + 4} }
\* base64 text of the scratch file's path
TmpNamePayload == MkPayload(16, 7)

\* the loop `while not ((DA1 start in resp) and (resp[-1:] == b'c'))`:
\* the number of bytes read when it exits, -1 when the input runs dry first
NegReadLen(input) ==
    LET first == Find(input, DA1_start)
        stops == IF first = -1 THEN {}
                 ELSE {n \in (first + Len(DA1_start))..Len(input) : input[n] = "c"}
    IN  IF stops = {} THEN -1 ELSE Least(stops)

\* the loop `while resp[-2:] != self.protocol_end`
AckReadLen(input) ==
    LET first == Find(input, protocol_end)
    IN  IF first = -1 THEN -1 ELSE first + Len(protocol_end)

\* items written to the terminal
OutApc(f) == [kind |-> "apc", cmd |-> f.cmd, m |-> f.m, payload |-> f.payload]
OutRaw(k) == [kind |-> k, cmd |-> [a |-> "", i |-> 0], m |-> "", payload |-> <<>>]
OutApcs(frags) == [j \in 1..Len(frags) |-> OutApc(frags[j])]

----------------------------------------------------------------------------
(* KittyImageDisplayer: state *)

QueryCmd == [a |-> "q", i |-> 1, f |-> 24, t |-> "f", s |-> 1, v |-> 1, S |-> 3]

NoSize == [width |-> 0, height |-> 0]
NoResult == [op |-> "none", raised |-> "None", neg |-> FALSE, neg_resp |-> <<>>,
             sent |-> FALSE, ack |-> <<>>, resp |-> <<>>,
             boxed |-> FALSE, img |-> NoSize, box |-> <<0, 0>>, size |-> NoSize,
             cells |-> <<0, 0>>, ws |-> <<0, 0, 0, 0>>]

\* before construction: only the class attribute image_id = 0 exists
IdleKitty ==
    /\ constructed = FALSE
    /\ needs_late_init = TRUE
    /\ stream = "None"
    /\ temp_file_dir = "None"
    /\ backend = "None"
    /\ pix_row = 0
    /\ pix_col = 0
    /\ image_id = 0
    /\ stdin = <<>>
    /\ out = <<>>
    /\ nread = 0
    /\ result = NoResult
    /\ negotiated = FALSE
    /\ hist = <<>>
    /\ everUnsupported = FALSE

KittyInit ==
    /\ ~constructed
    /\ constructed' = TRUE
    /\ needs_late_init' = TRUE
    /\ backend' = "None"
    /\ stream' = "None"
    /\ pix_row' = 0
    /\ pix_col' = 0
    /\ temp_file_dir' = "None"
    /\ out' = <<>>
    /\ nread' = 0
    /\ result' = [NoResult EXCEPT !.op = "__init__"]
    /\ UNCHANGED <<image_id, stdin, negotiated, hist, everUnsupported>>
    /\ UNCHANGED notKitty

----------------------------------------------------------------------------
(* KittyImageDisplayer._late_init *)

\* `if not resp.startswith(self.protocol_start)`
NegotiationRefused_never(resp) == FALSE
NegotiationRefused(resp) == ~StartsWith(resp, protocol_start)

\* resp[:resp.find(self.protocol_end) + 1]
StripReply(resp) == Take(resp, Find(resp, protocol_end) + 1)

\* the if/elif/else on the stripped reply: the value given to self.stream
TransferMethod_swapped(reply) ==
    IF Contains(reply, OK_token) THEN "True"
    ELSE IF Contains(reply, EBADF_token) THEN "False"
    ELSE "unexpected"
TransferMethod(reply) ==
    IF Contains(reply, OK_token) THEN "False"
    ELSE IF Contains(reply, EBADF_token) THEN "True"
    ELSE "unexpected"

\* the value assigned to needs_late_init on the last line of _late_init
late_init_flag_stuck == TRUE
late_init_flag == FALSE

\* neg: what the terminal answers; mkdir_ok: the spool directory can be
\* created or exists; pil: PIL can be imported; ws: the ioctl's winsize
_late_init(neg, mkdir_ok, pil, ws) ==
    LET query == _format_cmd_str(QueryCmd, TRUE, TmpNamePayload, max_slice_len)
        writes == OutApcs(query) \o <<OutRaw("da1")>>
        input == stdin \o neg
        n == NegReadLen(input)
        resp == Take(input, n)
        refused == NegotiationRefused(resp)
        reply == StripReply(resp)
        method == TransferMethod(reply)
        n_cols == ws[1]
        n_rows == ws[2]
        x_px_tot == ws[3]
        y_px_tot == ws[4]
        raised ==
            IF refused THEN "Unsupported"
            ELSE IF method = "unexpected" THEN "Unsupported"
            ELSE IF method = "False" /\ ~mkdir_ok THEN "Unsupported"
            ELSE IF ~pil THEN "ImageDisplayError"
            ELSE IF n_rows = 0 \/ n_cols = 0 THEN "ZeroDivisionError"
            ELSE "None"
        modeSet == ~refused /\ method # "unexpected"
        pilReached == modeSet /\ (method = "False" => mkdir_ok)
    IN  [blocked |-> n = -1,
         raised |-> raised,
         writes |-> writes,
         resp |-> resp,
         rest |-> Drop(input, n),
         stream |-> IF modeSet THEN method ELSE stream,
         temp_file_dir |-> IF modeSet /\ method = "False"
                           THEN "tty-graphics-protocol" ELSE temp_file_dir,
         backend |-> IF pilReached /\ pil THEN "PIL.Image" ELSE backend,
         pix_row |-> IF raised = "None" THEN x_px_tot \div n_rows ELSE pix_row,
         pix_col |-> IF raised = "None" THEN y_px_tot \div n_cols ELSE pix_col,
         needs_late_init |-> IF raised = "None" THEN late_init_flag
                             ELSE needs_late_init]

\* draw when needs_late_init is false: _late_init is not called
NoLateInit ==
    [blocked |-> FALSE, raised |-> "None", writes |-> <<>>, resp |-> <<>>,
     rest |-> stdin, stream |-> stream, temp_file_dir |-> temp_file_dir,
     backend |-> backend, pix_row |-> pix_row, pix_col |-> pix_col,
     needs_late_init |-> needs_late_init]

----------------------------------------------------------------------------
(* KittyImageDisplayer.draw *)

\* self.image_id += 1
NextId_same(id) == id
NextId(id) == id + 1

\* `if self.needs_late_init`
RunsLateInit_first == needs_late_init /\ hist = <<>>
RunsLateInit == needs_late_init

\* `if b'OK' in resp` on the acknowledgment
AckOk_always(resp) == TRUE
AckOk(resp) == Contains(resp, OK_token)

\* operands (b, d, side) on which the binary floating-point product
\* (b / d) * side falls just below the integer b * side / d
FloatShort == { <<8, 197, 197>> }

\* int(scale * side) with scale = b / d
IntScaled(b, d, side) ==
    (b * side) \div d - (IF <<b, d, side>> \in FloatShort THEN 1 ELSE 0)

\* the resize: scale = min(box[0] / width, box[1] / height), each side
\* int(scale * side)
Resized_max(img, box) ==
    IF img.width > box[1] \/ img.height > box[2]
    THEN IF box[1] * img.height >= box[2] * img.width
         THEN [width |-> IntScaled(box[1], img.width, img.width),
               height |-> IntScaled(box[1], img.width, img.height)]
         ELSE [width |-> IntScaled(box[2], img.height, img.width),
               height |-> IntScaled(box[2], img.height, img.height)]
    ELSE [width |-> img.width, height |-> img.height]
Resized(img, box) ==
    IF img.width > box[1] \/ img.height > box[2]
    THEN IF box[1] * img.height <= box[2] * img.width
         THEN [width |-> IntScaled(box[1], img.width, img.width),
               height |-> IntScaled(box[1], img.width, img.height)]
         ELSE [width |-> IntScaled(box[2], img.height, img.width),
               height |-> IntScaled(box[2], img.height, img.height)]
    ELSE [width |-> img.width, height |-> img.height]

DrawCmds(id, strm, img, size) ==
    IF strm = "True"
    THEN [a |-> "T", i |-> id, t |-> "d", f |-> img.bands * 8,
          s |-> size.width, v |-> size.height]
    ELSE [a |-> "T", i |-> id, t |-> "t", f |-> 100]

\* the draw reaches the transmit loop: nothing raised before it
DrawSends(li, img, cells) ==
    LET size == Resized(img, <<cells[1] * li.pix_row, cells[2] * li.pix_col>>)
    IN  /\ li.raised = "None"
        /\ img.readable
        /\ size.width # 0
        /\ size.height # 0

draw(img, cells, payload, ack, neg, mkdir_ok, pil, ws) ==
    LET id == NextId(image_id)
        runs == RunsLateInit
        li == IF runs THEN _late_init(neg, mkdir_ok, pil, ws) ELSE NoLateInit
        box == <<cells[1] * li.pix_row, cells[2] * li.pix_col>>
        size == Resized(img, box)
        sent == DrawSends(li, img, cells)
        boxed == li.raised = "None" /\ img.readable
        raisedEarly ==
            IF li.raised # "None" THEN li.raised
            ELSE IF ~img.readable THEN "IOError"
            ELSE IF ~sent THEN "ValueError"
            ELSE "None"
        frags == _format_cmd_str(DrawCmds(id, li.stream, img, size), TRUE,
                                 payload, max_slice_len)
        input == li.rest \o ack
        n == AckReadLen(input)
        resp == Take(input, n)
        raised == IF ~sent THEN raisedEarly
                  ELSE IF AckOk(resp) THEN "None" ELSE "ImageDisplayError"
    IN  /\ constructed
        /\ Len(hist) < MaxOps
        /\ ~li.blocked
        /\ sent => n # -1
        /\ image_id' = id
        /\ needs_late_init' = li.needs_late_init
        /\ stream' = li.stream
        /\ temp_file_dir' = li.temp_file_dir
        /\ backend' = li.backend
        /\ pix_row' = li.pix_row
        /\ pix_col' = li.pix_col
        /\ out' = IF sent
                  THEN li.writes \o <<OutRaw("sc"), OutRaw("cup")>>
                         \o OutApcs(frags) \o <<OutRaw("rc")>>
                  ELSE li.writes
        /\ stdin' = IF sent THEN Drop(input, n) ELSE li.rest
        /\ Len(stdin') <= MaxPending
        /\ nread' = Len(li.resp) + (IF sent THEN n ELSE 0)
        /\ result' = [op |-> "draw", raised |-> raised, neg |-> runs,
                      neg_resp |-> li.resp, sent |-> sent,
                      ack |-> IF sent THEN resp ELSE <<>>,
                      resp |-> IF sent /\ raised # "None" THEN resp ELSE <<>>,
                      boxed |-> boxed,
                      img |-> IF boxed THEN [width |-> img.width,
                                             height |-> img.height]
                              ELSE NoSize,
                      box |-> IF boxed THEN box ELSE <<0, 0>>,
                      size |-> IF boxed THEN size ELSE NoSize,
                      cells |-> IF boxed THEN cells ELSE <<0, 0>>,
                      ws |-> IF boxed /\ runs THEN ws ELSE <<0, 0, 0, 0>>]
        /\ negotiated' = (negotiated \/ (runs /\ li.raised = "None"))
        /\ everUnsupported' = (everUnsupported \/ (runs /\ li.raised = "Unsupported"))
        /\ hist' = Append(hist, [op |-> "draw", id |-> id, before |-> image_id,
                                 by |-> "draw", raised |-> raised, sent |-> sent])
        /\ UNCHANGED <<constructed, notKitty>>

\* _late_init with this answer gets as far as creating the spool directory,
\* as far as importing PIL
ReachesMkdir(neg) ==
    LET reply == StripReply(Take(stdin \o neg, NegReadLen(stdin \o neg)))
    IN  /\ NegReadLen(stdin \o neg) # -1
        /\ ~NegotiationRefused(Take(stdin \o neg, NegReadLen(stdin \o neg)))
        /\ TransferMethod(reply) = "False"
ReachesImport(neg, mkdir_ok) ==
    /\ NegReadLen(stdin \o neg) # -1
    /\ _late_init(neg, mkdir_ok, TRUE, <<50, 100, 800, 800>>).raised = "None"

\* inputs that cannot influence the call are held at one value
Draw ==
    \E neg \in (IF RunsLateInit THEN NegScripts ELSE {<<>>}) :
    \E mkdir_ok \in (IF RunsLateInit /\ ReachesMkdir(neg) THEN BOOLEAN ELSE {TRUE}) :
    \E pil \in (IF RunsLateInit /\ ReachesImport(neg, mkdir_ok) THEN BOOLEAN
                ELSE {TRUE}) :
    \E ws \in (IF RunsLateInit /\ ReachesImport(neg, mkdir_ok) /\ pil THEN WinSizes
               ELSE {<<50, 100, 800, 800>>}) :
        LET li == IF RunsLateInit THEN _late_init(neg, mkdir_ok, pil, ws)
                  ELSE NoLateInit
        IN  \E img \in (IF li.raised = "None" THEN Images
                        ELSE {[readable |-> FALSE, width |-> 0, height |-> 0,
                               bands |-> 3]}),
               cells \in Boxes :
                \E payload \in (IF DrawSends(li, img, cells) THEN DrawPayloads
                                ELSE {<<>>}),
                   ack \in (IF DrawSends(li, img, cells) THEN AckScripts
                            ELSE {<<>>}) :
                    draw(img, cells, payload, ack, neg, mkdir_ok, pil, ws)

\* draws that differ in the image, the cell box and the window size only
DrawResize ==
    \E neg \in (IF RunsLateInit
                THEN {KittyReply(OK_token) \o DA1_reply,
                      KittyReply(EBADF_token) \o DA1_reply}
                ELSE {<<>>}),
       ws \in (IF RunsLateInit THEN WinSizes ELSE {<<50, 100, 800, 800>>}),
       img \in ResizeImages, cells \in ResizeBoxes :
        draw(img, cells, MkPayload(4, 1), KittyReply(OK_token), neg, TRUE, TRUE, ws)

\* draws of one image that differ in the terminal's answers only
DrawAnswers ==
    \E neg \in (IF RunsLateInit
                THEN {DA1_reply, KittyReply(OK_token) \o DA1_reply,
                      KittyReply(EBADF_token) \o DA1_reply}
                ELSE {<<>>}),
       ack \in {KittyReply(OK_token), KittyReply(EINVAL_token)} :
        draw([readable |-> TRUE, width |-> 10, height |-> 10, bands |-> 3],
             <<100, 100>>, MkPayload(4, 1), ack, neg, TRUE, TRUE,
             <<50, 100, 800, 800>>)

----------------------------------------------------------------------------
(* KittyImageDisplayer.clear and quit *)

\* self.image_id = max(0, self.image_id - 1)
DecId_nofloor(id) == id - 1
DecId(id) == IF id - 1 > 0 THEN id - 1 ELSE 0

\* the command clear writes for the current id
ClearWrites_next(id) ==
    OutApcs(_format_cmd_str([a |-> "d", i |-> id + 1], FALSE, <<>>, max_slice_len))
ClearWrites(id) ==
    OutApcs(_format_cmd_str([a |-> "d", i |-> id], FALSE, <<>>, max_slice_len))

ClearEvent(id, by) ==
    [op |-> "clear", id |-> id, before |-> id, by |-> by, raised |-> "None",
     sent |-> TRUE]

clear ==
    /\ constructed
    /\ Len(hist) < MaxOps
    /\ out' = ClearWrites(image_id)
    /\ nread' = 0
    /\ image_id' = DecId(image_id)
    /\ result' = [NoResult EXCEPT !.op = "clear"]
    /\ hist' = Append(hist, ClearEvent(image_id, "clear"))
    /\ UNCHANGED <<constructed, needs_late_init, stream, temp_file_dir, backend,
                   pix_row, pix_col, stdin, negotiated, everUnsupported>>
    /\ UNCHANGED notKitty

\* `while self.image_id >= 1: self.clear(0, 0, 0, 0)`: the ids the loop
\* clears, in order
RECURSIVE QuitIds_gt(_)
QuitIds_gt(id) == IF id > 1 THEN <<id>> \o QuitIds_gt(DecId(id)) ELSE <<>>

RECURSIVE QuitIds(_)
QuitIds(id) == IF id >= 1 THEN <<id>> \o QuitIds(DecId(id)) ELSE <<>>

RECURSIVE QuitFinalId(_)
QuitFinalId(id) == IF id >= 1 THEN QuitFinalId(DecId(id)) ELSE id

RECURSIVE Flatten(_)
Flatten(ss) == IF ss = <<>> THEN <<>> ELSE Head(ss) \o Flatten(Tail(ss))

quit ==
    LET ids == QuitIds(image_id)
    IN  /\ constructed
        /\ result.op # "quit"
        /\ out' = Flatten([j \in 1..Len(ids) |-> ClearWrites(ids[j])])
        /\ nread' = 0
        /\ image_id' = QuitFinalId(image_id)
        /\ result' = [NoResult EXCEPT !.op = "quit"]
        /\ hist' = hist \o [j \in 1..Len(ids) |-> ClearEvent(ids[j], "quit")]
        /\ UNCHANGED <<constructed, needs_late_init, stream, temp_file_dir, backend,
                       pix_row, pix_col, stdin, negotiated, everUnsupported>>
        /\ UNCHANGED notKitty

----------------------------------------------------------------------------
(* displayer.py: get_font_dimensions *)

\* ws is (rows, cols, xpixels, ypixels) as get_terminal_size returns it
get_font_dimensions(ws) ==
    IF ws[2] = 0 \/ ws[1] = 0
    THEN [raised |-> "ZeroDivisionError", width |-> 0, height |-> 0]
    ELSE [raised |-> "None", width |-> ws[3] \div ws[2], height |-> ws[4] \div ws[1]]

----------------------------------------------------------------------------
(* SixelImageDisplayer *)

SixelPaths == {"a", "b"}
\* cell boxes (width, height) passed to draw
SixelSizes == { <<10, 5>>, <<20, 10>> }
\* inode numbers the file system hands out; 0 stands for no such file
Inodes == 1..2
SixelWinSizes == { <<24, 80, 640, 384>>, <<0, 0, 0, 0>> }

\* what running the converter does: it writes sixel bytes and exits 0, exits
\* non-zero, exits 0 having written nothing, or cannot be found
ConvOutcomes ==
    { [status |-> "ok", bytes |-> "sixelA"],
      [status |-> "ok", bytes |-> "sixelB"],
      [status |-> "exit", bytes |-> ""],
      [status |-> "empty", bytes |-> ""],
      [status |-> "missing", bytes |-> ""] }

\* _CacheableSixelImage(width, height, inode)
_CacheableSixelImage(width, height, inode) ==
    [width |-> width, height |-> height, inode |-> inode]

\* _CachedSixelImage(image, fh): the mapped bytes and the spool file, whose
\* name ends in the path it was made from
_CachedSixelImage(image, path) == [image |-> image, fh |-> path]

SixelKeys ==
    { _CacheableSixelImage(sz[1], sz[2], i) : sz \in SixelSizes, i \in Inodes }

EmptyCache == [k \in {} |-> _CachedSixelImage("", "")]

\* os.path.exists(path) and os.stat(path).st_ino
PathExists(files, path) == files[path] # 0
StatIno(files, path) == files[path]

\* `if cacheable not in self.cache`
CacheHit_never(c, key) == FALSE
CacheHit(c, key) == key \in DOMAIN c

\* self.cache[cacheable] = _CachedSixelImage(...)
CacheStore_drop(c, key, entry) == c
CacheStore(c, key, entry) ==
    [k \in DOMAIN c \cup {key} |-> IF k = key THEN entry ELSE c[k]]

\* the conversion got past check_call and the size test
ConvStores_empty(conv) == conv.status \in {"ok", "empty"}
ConvStores(conv) == conv.status = "ok"

\* the converter process was started
ConvInvoked(conv) == conv.status # "missing"

_clear_cache_everything(c, files, path) ==
    IF PathExists(files, path) THEN EmptyCache ELSE c
_clear_cache_missing(c, files, path) ==
    IF PathExists(files, path)
    THEN [ce \in {k \in DOMAIN c : k.inode # StatIno(files, path)} |-> c[ce]]
    ELSE EmptyCache
_clear_cache(c, files, path) ==
    IF PathExists(files, path)
    THEN [ce \in {k \in DOMAIN c : k.inode # StatIno(files, path)} |-> c[ce]]
    ELSE c

NoKey == _CacheableSixelImage(0, 0, 0)

_sixel_cache(c, files, path, width, height, ws, conv) ==
    IF ~PathExists(files, path)
    THEN [raised |-> "FileNotFoundError", cache |-> c, image |-> "",
          key |-> NoKey, hit |-> FALSE, conv |-> "none", converted |-> FALSE]
    ELSE
    LET cacheable == _CacheableSixelImage(width, height, StatIno(files, path))
        font == get_font_dimensions(ws)
    IN  IF CacheHit(c, cacheable)
        THEN [raised |-> "None", cache |-> c, image |-> c[cacheable].image,
              key |-> cacheable, hit |-> TRUE, conv |-> "none",
              converted |-> FALSE]
        ELSE IF font.raised # "None"
        THEN [raised |-> font.raised, cache |-> c, image |-> "",
              key |-> cacheable, hit |-> FALSE, conv |-> "none",
              converted |-> FALSE]
        ELSE IF ~ConvStores(conv)
        THEN [raised |-> "ImageDisplayError", cache |-> c, image |-> "",
              key |-> cacheable, hit |-> FALSE, conv |-> conv.status,
              converted |-> ConvInvoked(conv)]
        ELSE [raised |-> "None",
              cache |-> CacheStore(c, cacheable, _CachedSixelImage(conv.bytes, path)),
              image |-> conv.bytes,
              key |-> cacheable, hit |-> FALSE, conv |-> conv.status,
              converted |-> TRUE]

NoSixelResult ==
    [op |-> "none", path |-> "", ino |-> 0, key |-> NoKey, hit |-> FALSE,
     conv |-> "none", converted |-> FALSE, raised |-> "None", image |-> "",
     redrawn |-> FALSE]

\* the instance as __init__ leaves it, and one image file
IdleSixel ==
    /\ cache = EmptyCache
    /\ win = "None"
    /\ fs = [p \in SixelPaths |-> IF p = "a" THEN 1 ELSE 0]
    /\ sout = <<>>
    /\ sres = NoSixelResult
    /\ sops = 0
    /\ nconv = [k \in SixelKeys |-> 0]
    /\ sinceEmit = [k \in {} |-> ""]

sixel_draw(path, width, height, ws, conv) ==
    LET r == _sixel_cache(cache, fs, path, width, height, ws, conv)
    IN  /\ sops < MaxSixelOps
        /\ sops' = sops + 1
        /\ win' = "win"
        /\ cache' = r.cache
        /\ sout' = <<"sc", "cup">>
                     \o (IF r.raised = "None" THEN <<r.image, "rc">> ELSE <<>>)
        /\ sres' = [op |-> "draw", path |-> path, ino |-> fs[path], key |-> r.key,
                    hit |-> r.hit, conv |-> r.conv, converted |-> r.converted,
                    raised |-> r.raised, image |-> r.image, redrawn |-> FALSE]
        /\ nconv' = IF r.converted
                    THEN [nconv EXCEPT ![r.key] = nconv[r.key] + 1] ELSE nconv
        /\ sinceEmit' = IF r.raised = "None"
                        THEN [k \in DOMAIN sinceEmit \cup {r.key} |->
                                 IF k = r.key THEN r.image ELSE sinceEmit[k]]
                        ELSE sinceEmit
        /\ UNCHANGED <<fs, notSixel>>

\* inputs that cannot influence the call are held at one value
SixelDraw ==
    \E path \in SixelPaths, sz \in SixelSizes :
        LET miss == /\ PathExists(fs, path)
                    /\ ~CacheHit(cache, _CacheableSixelImage(sz[1], sz[2],
                                                             StatIno(fs, path)))
        IN  \E ws \in (IF miss THEN SixelWinSizes ELSE {<<24, 80, 640, 384>>}) :
              \E conv \in (IF miss /\ get_font_dimensions(ws).raised = "None"
                           THEN ConvOutcomes
                           ELSE {[status |-> "ok", bytes |-> "sixelA"]}) :
                sixel_draw(path, sz[1], sz[2], ws, conv)

\* the handler bound to the preview.cleared signal
SixelInvalidate ==
    \E path \in SixelPaths :
        /\ sops < MaxSixelOps
        /\ sops' = sops + 1
        /\ cache' = _clear_cache(cache, fs, path)
        /\ sout' = <<>>
        /\ sres' = [NoSixelResult EXCEPT !.op = "invalidate", !.path = path,
                                         !.ino = fs[path]]
        /\ sinceEmit' = [k \in {} |-> ""]
        /\ UNCHANGED <<win, fs, nconv, notSixel>>

\* the window is dropped when there is one; the screen is redrawn either way
sixel_clear ==
    /\ win' = "None"
    /\ sout' = <<>>
    /\ sres' = [NoSixelResult EXCEPT !.op = "clear", !.redrawn = TRUE]
    /\ UNCHANGED <<cache, fs, sops, nconv, sinceEmit, notSixel>>

sixel_quit ==
    /\ sops < MaxSixelOps
    /\ sops' = sops + 1
    /\ win' = "None"
    /\ cache' = EmptyCache
    /\ sout' = <<>>
    /\ sres' = [NoSixelResult EXCEPT !.op = "quit", !.redrawn = TRUE]
    /\ sinceEmit' = [k \in {} |-> ""]
    /\ UNCHANGED <<fs, nconv, notSixel>>

(* the files change under the instance *)

\* a file is moved to a free name: the inode goes with it
FsRename ==
    \E p \in SixelPaths, q \in SixelPaths :
        /\ fs[p] # 0
        /\ fs[q] = 0
        /\ fs' = [fs EXCEPT ![p] = 0, ![q] = fs[p]]
        /\ UNCHANGED <<cache, win, sout, sres, sops, nconv, sinceEmit, notSixel>>

FsDelete ==
    \E p \in SixelPaths :
        /\ fs[p] # 0
        /\ fs' = [fs EXCEPT ![p] = 0]
        /\ UNCHANGED <<cache, win, sout, sres, sops, nconv, sinceEmit, notSixel>>

\* a new file is written at a path, in place of the one there if any
FsReplace ==
    \E p \in SixelPaths, i \in Inodes :
        /\ \A q \in SixelPaths : fs[q] # i
        /\ fs' = [fs EXCEPT ![p] = i]
        /\ UNCHANGED <<cache, win, sout, sres, sops, nconv, sinceEmit, notSixel>>

----------------------------------------------------------------------------
(* W3MImageDisplayer._get_font_dimensions *)

\* TIOCGWINSZ answers (rows, cols, xpixels, ypixels)
W3MWinSizes ==
    { <<24, 80, 0, 0>>, <<24, 80, 640, 384>>, <<24, 80, 641, 0>>,
      <<24, 80, 0, 385>>, <<0, 0, 0, 0>>, <<50, 100, 800, 800>>,
      <<24, 80, 79, 23>> }

\* the numbers `w3mimgdisplay -test` prints, split on whitespace
W3MTestOutputs == { <<638, 382>>, <<78, 22>>, <<>> }

\* xpixels += 2; ypixels += 2
Corrected_one(pixels) == pixels + 1
Corrected(pixels) == pixels + 2

\* `if xpixels == 0 and ypixels == 0`
UsesTestMode(xpixels, ypixels) == xpixels = 0 /\ ypixels = 0

NoW3MFont ==
    [raised |-> "None", spawned_test |-> FALSE, width |-> 0, height |-> 0,
     binary_path |-> "None", done |-> FALSE]

_get_font_dimensions(binary_path, found, ws, test) ==
    LET rows == ws[1]
        cols == ws[2]
        spawn == UsesTestMode(ws[3], ws[4])
        xpixels == IF spawn THEN Corrected(test[1]) ELSE ws[3]
        ypixels == IF spawn THEN Corrected(test[2]) ELSE ws[4]
        path == IF binary_path = "None" THEN "found" ELSE binary_path
    IN  IF binary_path = "None" /\ ~found
        THEN [NoW3MFont EXCEPT !.raised = "ImageDisplayError", !.done = TRUE]
        ELSE IF spawn /\ Len(test) < 2
        THEN [NoW3MFont EXCEPT !.raised = "IndexError", !.spawned_test = TRUE,
                               !.binary_path = path, !.done = TRUE]
        ELSE IF cols = 0 \/ rows = 0
        THEN [NoW3MFont EXCEPT !.raised = "ZeroDivisionError",
                               !.spawned_test = spawn,
                               !.binary_path = path, !.done = TRUE]
        ELSE [raised |-> "None", spawned_test |-> spawn,
              width |-> xpixels \div cols, height |-> ypixels \div rows,
              binary_path |-> path, done |-> TRUE]

NoW3MFontCall == [binary_path |-> "None", found |-> FALSE, ws |-> <<0, 0, 0, 0>>,
                  test |-> <<>>]

W3MFontCalls ==
    [binary_path : {"None", "set"}, found : BOOLEAN, ws : W3MWinSizes,
     test : W3MTestOutputs]

IdleW3MFont == w3mFontCall = NoW3MFontCall /\ w3mFontOut = NoW3MFont

InitW3MFont == w3mFontCall \in W3MFontCalls /\ w3mFontOut = NoW3MFont

GetFontDimensions ==
    /\ w3mFontCall \in W3MFontCalls
    /\ ~w3mFontOut.done
    /\ w3mFontOut' = _get_font_dimensions(w3mFontCall.binary_path,
                         w3mFontCall.found, w3mFontCall.ws, w3mFontCall.test)
    /\ UNCHANGED <<w3mFontCall, notW3MFont>>

----------------------------------------------------------------------------
(* W3MImageDisplayer *)

\* one item of the instance's I/O: k is spawn, write, flush, read or kill, p
\* the process, cmd the first field of the command written, w and h the size
\* a display command carries
W3MIo(k, p, cmd, w, h) == [k |-> k, p |-> p, cmd |-> cmd, w |-> w, h |-> h]

\* the reply line to the size query, split on whitespace
W3MReplies == { <<100, 100>>, <<1000, 50>>, <<0, 0>>, <<>> }
\* (max_width, max_height) in cells
W3MBoxes == { <<10, 5>>, <<10, 0>>, <<0, 5>> }
\* winsize answers: 8x16 pixel cells, no pixel size (test mode), a font
\* dimension of zero
W3MDrawWinSizes == { <<24, 80, 640, 384>>, <<24, 80, 0, 0>>, <<24, 80, 79, 23>> }

NoW3MResult ==
    [op |-> "none", raised |-> "None", spawned |-> FALSE, used |-> 0,
     broken |-> FALSE, displayed |-> FALSE,
     native |-> <<0, 0>>, box |-> <<0, 0>>, w |-> 0, h |-> 0]

\* __init__, with the class attribute is_initialized = False
IdleW3M ==
    /\ w3m_is_initialized = FALSE
    /\ w3m_binary_path = "None"
    /\ w3m_process = 0
    /\ w3m_alive = {}
    /\ w3m_spawned = 0
    /\ w3m_io = <<>>
    /\ w3m_res = NoW3MResult

\* `not self.is_initialized or self.process.poll() is not None`
NeedsInitialize == ~w3m_is_initialized \/ w3m_process \notin w3m_alive

\* initialize(): the state it leaves and what it did
initialize(found) ==
    IF ~found
    THEN [raised |-> "ImageDisplayError", binary_path |-> "None",
          process |-> w3m_process, is_initialized |-> w3m_is_initialized,
          alive |-> w3m_alive, spawned |-> w3m_spawned, io |-> <<>>]
    ELSE [raised |-> "None", binary_path |-> "found",
          process |-> w3m_spawned + 1, is_initialized |-> TRUE,
          alive |-> w3m_alive \cup {w3m_spawned + 1},
          spawned |-> w3m_spawned + 1,
          io |-> <<W3MIo("spawn", w3m_spawned + 1, "", 0, 0)>>]

NoInitialize ==
    [raised |-> "None", binary_path |-> w3m_binary_path,
     process |-> w3m_process, is_initialized |-> w3m_is_initialized,
     alive |-> w3m_alive, spawned |-> w3m_spawned, io |-> <<>>]

\* a command batch sent to process p whose pipe works: write, flush, and the
\* blocking readline of the reply
Exchange_noread(p, cmd, w, h) ==
    <<W3MIo("write", p, cmd, w, h), W3MIo("flush", p, "", 0, 0)>>
Exchange(p, cmd, w, h) ==
    <<W3MIo("write", p, cmd, w, h), W3MIo("flush", p, "", 0, 0),
      W3MIo("read", p, "", 0, 0)>>

\* a command batch sent to a process that has gone: an unbuffered stream
\* fails in write, a buffered one takes the write and fails in flush
BrokenSend(p, cmd, surface) ==
    IF surface = "write" THEN <<>>
    ELSE <<W3MIo("write", p, cmd, 0, 0)>>

\* the maximum image size preserving ratio
W3MFit(width, height, max_width_pixels, max_height_pixels) ==
    LET byW == width > max_width_pixels
        h1 == IF byW THEN (height * max_width_pixels) \div width ELSE height
        w1 == IF byW THEN max_width_pixels ELSE width
        byH == h1 > max_height_pixels
    IN  IF byH /\ h1 = 0
        THEN [raised |-> "ZeroDivisionError", w |-> 0, h |-> 0]
        ELSE [raised |-> "None",
              w |-> IF byH THEN (w1 * max_height_pixels) \div h1 ELSE w1,
              h |-> IF byH THEN max_height_pixels ELSE h1]

\* self.quit() at the end of draw: kill when initialized and still running
W3MQuitAlive_keep(is_init, process, alive) == alive
W3MQuitAlive(is_init, process, alive) ==
    IF is_init /\ process # 0 /\ process \in alive
    THEN alive \ {process} ELSE alive

\* self.is_initialized = False, the last statement of draw
DrawnFlag == FALSE

\* the probe `w3mimgdisplay -test` that _get_font_dimensions may run
TestIo(font) ==
    IF font.spawned_test THEN <<W3MIo("test", 0, "", 0, 0)>> ELSE <<>>

\* found: an executable exists at a searched path; ws, test: what the
\* window-size ioctl and the probe answer; reply: the companion's reply to
\* the size query; box: the cell box; dies: the companion exits right after
\* the liveness check; surface: where the stream reports the broken pipe
w3m_draw(found, ws, test, reply, box, dies, surface) ==
    LET needs == NeedsInitialize
        ini == IF needs THEN initialize(found) ELSE NoInitialize
        pr == ini.process
        font == _get_font_dimensions(ini.binary_path, TRUE, ws, test)
        alive1 == IF dies THEN ini.alive \ {pr} ELSE ini.alive
        max_width_pixels == box[1] * font.width
        max_height_pixels == box[2] * font.height - 2
        fit == IF Len(reply) = 2
               THEN W3MFit(reply[1], reply[2], max_width_pixels, max_height_pixels)
               ELSE [raised |-> "None", w |-> 0, h |-> 0]
        raised ==
            IF ini.raised # "None" THEN ini.raised
            ELSE IF font.raised # "None" THEN font.raised
            ELSE IF font.width = 0 \/ font.height = 0 THEN "Unsupported"
            ELSE IF dies THEN "IOError"
            ELSE IF Len(reply) # 2 THEN "ImageDisplayError"
            ELSE fit.raised
        queried == ini.raised = "None" /\ font.raised = "None"
                   /\ font.width # 0 /\ font.height # 0
        displayed == raised = "None"
        alive2 == IF displayed THEN W3MQuitAlive(ini.is_initialized, pr, alive1)
                  ELSE IF ini.raised = "None" THEN alive1 ELSE ini.alive
        io == ini.io
              \o (IF ini.raised = "None" THEN TestIo(font) ELSE <<>>)
              \o (IF ~queried THEN <<>>
                  ELSE IF dies THEN BrokenSend(pr, "5", surface)
                  ELSE Exchange(pr, "5", 0, 0))
              \o (IF displayed THEN Exchange(pr, "0", fit.w, fit.h) ELSE <<>>)
              \o (IF displayed /\ alive2 # alive1
                  THEN <<W3MIo("kill", pr, "", 0, 0)>> ELSE <<>>)
    IN  /\ ini.spawned <= MaxW3MProcs
        /\ w3m_binary_path' = ini.binary_path
        /\ w3m_process' = pr
        /\ w3m_spawned' = ini.spawned
        /\ w3m_is_initialized' = IF displayed THEN DrawnFlag ELSE ini.is_initialized
        /\ w3m_alive' = alive2
        /\ w3m_io' = io
        /\ w3m_res' = [op |-> "draw", raised |-> raised,
                       spawned |-> ini.io # <<>>, used |-> pr,
                       broken |-> queried /\ dies, displayed |-> displayed,
                       native |-> IF displayed THEN reply ELSE <<0, 0>>,
                       box |-> IF displayed
                               THEN <<max_width_pixels, max_height_pixels>>
                               ELSE <<0, 0>>,
                       w |-> IF displayed THEN fit.w ELSE 0,
                       h |-> IF displayed THEN fit.h ELSE 0]
        /\ UNCHANGED notW3M

W3MDraw ==
    \E found \in (IF NeedsInitialize THEN BOOLEAN ELSE {TRUE}),
       ws \in W3MDrawWinSizes, test \in {<<638, 382>>, <<>>},
       reply \in W3MReplies, box \in W3MBoxes,
       dies \in BOOLEAN, surface \in {"write", "flush"} :
        w3m_draw(found, ws, test, reply, box, dies, surface)

\* err: an I/O error other than a broken pipe meets the write
w3m_clear(found, ws, test, dies, surface, err) ==
    LET needs == NeedsInitialize
        ini == IF needs THEN initialize(found) ELSE NoInitialize
        pr == ini.process
        font == _get_font_dimensions(ini.binary_path, TRUE, ws, test)
        alive1 == IF dies THEN ini.alive \ {pr} ELSE ini.alive
        reached == ini.raised = "None" /\ font.raised = "None"
        epipeInWrite == reached /\ ~err /\ dies /\ surface = "write"
        raised ==
            IF ini.raised # "None" THEN ini.raised
            ELSE IF font.raised # "None" THEN font.raised
            ELSE IF err THEN "IOError"
            ELSE IF dies /\ surface = "flush" THEN "IOError"
            ELSE "None"
        io == ini.io
              \o (IF ini.raised = "None" THEN TestIo(font) ELSE <<>>)
              \o (IF ~reached \/ err THEN <<>>
                  ELSE IF dies THEN BrokenSend(pr, "6", surface)
                  ELSE Exchange(pr, "6", 0, 0))
    IN  /\ ini.spawned <= MaxW3MProcs
        /\ w3m_binary_path' = ini.binary_path
        /\ w3m_process' = pr
        /\ w3m_spawned' = ini.spawned
        /\ w3m_is_initialized' = ini.is_initialized
        /\ w3m_alive' = IF ini.raised = "None" THEN alive1 ELSE ini.alive
        /\ w3m_io' = io
        /\ w3m_res' = [NoW3MResult EXCEPT !.op = "clear", !.raised = raised,
                                          !.spawned = (ini.io # <<>>),
                                          !.used = pr,
                                          !.broken = (reached /\ ~err /\ dies)]
        /\ UNCHANGED notW3M

W3MClear ==
    \E found \in (IF NeedsInitialize THEN BOOLEAN ELSE {TRUE}),
       ws \in W3MDrawWinSizes, test \in {<<638, 382>>, <<>>},
       dies \in BOOLEAN, surface \in {"write", "flush"}, err \in BOOLEAN :
        w3m_clear(found, ws, test, dies, surface, err)

w3m_quit ==
    LET alive1 == W3MQuitAlive(w3m_is_initialized, w3m_process, w3m_alive)
    IN  /\ w3m_alive' = alive1
        /\ w3m_io' = IF alive1 # w3m_alive
                     THEN <<W3MIo("kill", w3m_process, "", 0, 0)>> ELSE <<>>
        /\ w3m_res' = [NoW3MResult EXCEPT !.op = "quit", !.used = w3m_process]
        /\ UNCHANGED <<w3m_is_initialized, w3m_binary_path, w3m_process,
                       w3m_spawned, notW3M>>

\* the companion exits by itself between two calls
W3MCompanionExits ==
    \E pr \in w3m_alive :
        /\ w3m_alive' = w3m_alive \ {pr}
        /\ UNCHANGED <<w3m_is_initialized, w3m_binary_path, w3m_process,
                       w3m_spawned, w3m_io, w3m_res, notW3M>>

----------------------------------------------------------------------------
(* UeberzugImageDisplayer *)

\* one item of the instance's I/O with the companion: k is spawn, write or
\* flush, p the process, action the action of the JSON line written
UIo(k, pr, action) == [k |-> k, p |-> pr, action |-> action]

NoTimer == [target |-> 0, started |-> FALSE, fired |-> FALSE, cancelled |-> FALSE]

NoUResult == [op |-> "none", raised |-> "None", spawned |-> FALSE, watched |-> 0]

\* __init__, with the class attribute is_initialized = False
IdleUeberzug ==
    /\ u_is_initialized = FALSE
    /\ u_process = 0
    /\ u_alive = {}
    /\ u_stdin_closed = {}
    /\ u_spawned = 0
    /\ u_termed = {}
    /\ u_killed = {}
    /\ u_timer = NoTimer
    /\ u_pc = "idle"
    /\ u_io = <<>>
    /\ u_res = NoUResult

\* initialize() returns at once: initialized, running, stdin open
UKeepsProcess_flag == u_is_initialized
UKeepsProcess ==
    /\ u_is_initialized
    /\ u_process \in u_alive
    /\ u_process \notin u_stdin_closed

\* _execute(**kwargs): initialize(), then one JSON line written and flushed
\* found: the ueberzug executable can be started
_execute(action, found) ==
    IF UKeepsProcess
    THEN [raised |-> "None", is_initialized |-> u_is_initialized,
          process |-> u_process, alive |-> u_alive, spawned |-> u_spawned,
          io |-> <<UIo("write", u_process, action), UIo("flush", u_process, "")>>]
    ELSE IF ~found
    THEN [raised |-> "OSError", is_initialized |-> u_is_initialized,
          process |-> u_process, alive |-> u_alive, spawned |-> u_spawned,
          io |-> <<>>]
    ELSE [raised |-> "None", is_initialized |-> TRUE,
          process |-> u_spawned + 1, alive |-> u_alive \cup {u_spawned + 1},
          spawned |-> u_spawned + 1,
          io |-> <<UIo("spawn", u_spawned + 1, ""),
                   UIo("write", u_spawned + 1, action),
                   UIo("flush", u_spawned + 1, "")>>]

UExecute(op, action, found) ==
    LET e == _execute(action, found)
    IN  /\ e.spawned <= MaxUeberzugProcs
        /\ u_is_initialized' = e.is_initialized
        /\ u_process' = e.process
        /\ u_alive' = e.alive
        /\ u_spawned' = e.spawned
        /\ u_io' = e.io
        /\ u_res' = [NoUResult EXCEPT !.op = op, !.raised = e.raised,
                                      !.spawned = (e.spawned # u_spawned)]
        /\ UNCHANGED <<u_stdin_closed, u_termed, u_killed, u_timer, u_pc,
                       notUeberzug>>

ueberzug_draw ==
    /\ u_pc = "idle"
    /\ \E found \in (IF UKeepsProcess THEN {TRUE} ELSE BOOLEAN) :
          UExecute("draw", "add", found)

\* `if self.process and not self.process.stdin.closed`
UClearSends_always == TRUE
UClearSends == u_process # 0 /\ u_process \notin u_stdin_closed

ueberzug_clear ==
    /\ u_pc = "idle"
    /\ IF UClearSends
       THEN \E found \in (IF UKeepsProcess THEN {TRUE} ELSE BOOLEAN) :
               UExecute("clear", "remove", found)
       ELSE /\ u_io' = <<>>
            /\ u_res' = [NoUResult EXCEPT !.op = "clear"]
            /\ UNCHANGED <<u_is_initialized, u_process, u_alive, u_stdin_closed,
                           u_spawned, u_termed, u_killed, u_timer, u_pc,
                           notUeberzug>>

(* quit, statement by statement *)

\* `if self.is_initialized and self.process.poll() is None`, then
\* timer_kill = threading.Timer(1, self.process.kill, [])
UQuitBegin ==
    /\ u_pc = "idle"
    /\ u_io' = <<>>
    /\ IF u_is_initialized /\ u_process \in u_alive
       THEN /\ u_timer' = [NoTimer EXCEPT !.target = u_process]
            /\ u_pc' = "terminate"
            /\ u_res' = [NoUResult EXCEPT !.op = "quitting", !.watched = u_process]
       ELSE /\ u_res' = [NoUResult EXCEPT !.op = "quit"]
            /\ UNCHANGED <<u_timer, u_pc>>
    /\ UNCHANGED <<u_is_initialized, u_process, u_alive, u_stdin_closed,
                   u_spawned, u_termed, u_killed, notUeberzug>>

\* self.process.terminate()
UQuitTerminate ==
    /\ u_pc = "terminate"
    /\ u_termed' = IF u_process \in u_alive THEN u_termed \cup {u_process}
                   ELSE u_termed
    /\ u_pc' = "start"
    /\ UNCHANGED <<u_is_initialized, u_process, u_alive, u_stdin_closed,
                   u_spawned, u_killed, u_timer, u_io, u_res, notUeberzug>>

\* timer_kill.start()
TimerStart_none(t) == t
TimerStart(t) == [t EXCEPT !.started = TRUE]

UQuitStartTimer ==
    /\ u_pc = "start"
    /\ u_timer' = TimerStart(u_timer)
    /\ u_pc' = "communicate"
    /\ UNCHANGED <<u_is_initialized, u_process, u_alive, u_stdin_closed,
                   u_spawned, u_termed, u_killed, u_io, u_res, notUeberzug>>

\* self.process.communicate(): stdin is closed, then the exit is awaited
UQuitCloseStdin ==
    /\ u_pc = "communicate"
    /\ u_stdin_closed' = u_stdin_closed \cup {u_process}
    /\ u_pc' = "wait"
    /\ UNCHANGED <<u_is_initialized, u_process, u_alive, u_spawned, u_termed,
                   u_killed, u_timer, u_io, u_res, notUeberzug>>

UQuitWait ==
    /\ u_pc = "wait"
    /\ u_process \notin u_alive
    /\ u_pc' = "cancel"
    /\ UNCHANGED <<u_is_initialized, u_process, u_alive, u_stdin_closed,
                   u_spawned, u_termed, u_killed, u_timer, u_io, u_res,
                   notUeberzug>>

\* finally: timer_kill.cancel()
UQuitCancel ==
    /\ u_pc = "cancel"
    /\ u_timer' = [u_timer EXCEPT !.cancelled = TRUE]
    /\ u_pc' = "idle"
    /\ u_res' = [u_res EXCEPT !.op = "quit"]
    /\ UNCHANGED <<u_is_initialized, u_process, u_alive, u_stdin_closed,
                   u_spawned, u_termed, u_killed, u_io, notUeberzug>>

ueberzug_quit ==
    \/ UQuitBegin \/ UQuitTerminate \/ UQuitStartTimer
    \/ UQuitCloseStdin \/ UQuitWait \/ UQuitCancel

\* the timer thread: after the interval, unless cancelled, it calls
\* self.process.kill(), which signals a process that has not exited
UTimerFires ==
    /\ u_timer.started
    /\ ~u_timer.fired
    /\ ~u_timer.cancelled
    /\ u_timer' = [u_timer EXCEPT !.fired = TRUE]
    /\ u_killed' = IF u_timer.target \in u_alive
                   THEN u_killed \cup {u_timer.target} ELSE u_killed
    /\ UNCHANGED <<u_is_initialized, u_process, u_alive, u_stdin_closed,
                   u_spawned, u_termed, u_pc, u_io, u_res, notUeberzug>>

\* the companion exits: by itself, or because it honours SIGTERM
UCompanionExits ==
    \E pr \in u_alive :
        /\ u_alive' = u_alive \ {pr}
        /\ UNCHANGED <<u_is_initialized, u_process, u_stdin_closed, u_spawned,
                       u_termed, u_killed, u_timer, u_pc, u_io, u_res,
                       notUeberzug>>

\* a companion that was sent SIGKILL is gone
UKilledExits ==
    \E pr \in u_alive \cap u_killed :
        /\ u_alive' = u_alive \ {pr}
        /\ UNCHANGED <<u_is_initialized, u_process, u_stdin_closed, u_spawned,
                       u_termed, u_killed, u_timer, u_pc, u_io, u_res,
                       notUeberzug>>

----------------------------------------------------------------------------
(* ITerm2ImageDisplayer: files are sequences of bytes *)

PNGMagic == <<137, 80, 78, 71, 13, 10, 26, 10>>
JFIF == <<74, 70, 73, 70>>
Exif == <<69, 120, 105, 102>>
GIF87a == <<71, 73, 70, 56, 55, 97>>
GIF89a == <<71, 73, 70, 56, 57, 97>>

\* s[a:b] of Python, offsets from 0
Slice(s, a, b) == SubSeq(s, a + 1, IF b < Len(s) THEN b ELSE Len(s))

\* struct.unpack('>H', s) and struct.unpack('<H', s) of two bytes
UnpackBE16(s) == s[1] * 256 + s[2]
UnpackLE16(s) == s[2] * 256 + s[1]
\* struct.unpack('>i', s): four bytes, big-endian, two's complement
UnpackBE32(s) ==
    (IF s[1] >= 128 THEN s[1] - 256 ELSE s[1]) * 16777216
        + s[2] * 65536 + s[3] * 256 + s[4]

Pack16(n) == <<(n \div 256) % 256, n % 256>>
Pack32(n) == <<(n \div 16777216) % 256, (n \div 65536) % 256,
               (n \div 256) % 256, n % 256>>

\* imghdr_what(path) on the bytes of the file
imghdr_what(f) ==
    LET header == Slice(f, 0, 32)
    IN  IF Slice(header, 6, 10) \in {JFIF, Exif} THEN "jpeg"
        ELSE IF Slice(header, 0, 4) = <<255, 216, 255, 219>> THEN "jpeg"
        ELSE IF Slice(header, 0, 8) = PNGMagic THEN "png"
        ELSE IF Slice(header, 0, 6) \in {GIF87a, GIF89a} THEN "gif"
        ELSE "None"

Dimensions(raised, width, height) ==
    [raised |-> raised, width |-> width, height |-> height]

\* `while ord(byte) == 0xff: byte = file_handle.read(1)`: the offset of the
\* first byte at or after pos that is not 0xff, or -1 when the file ends first
RECURSIVE SkipFF(_, _)
SkipFF(f, pos) ==
    IF pos >= Len(f) THEN -1
    ELSE IF f[pos + 1] = 255 THEN SkipFF(f, pos + 1)
    ELSE pos

\* the JPEG branch: the marker loop from file offset pos with the current
\* size and ftype; only OSError is caught
RECURSIVE JpegScan(_, _, _, _)
JpegScan(f, pos, size, ftype) ==
    IF ftype >= 192 /\ ftype <= 207
    THEN LET data == Slice(f, pos + 1, pos + 5)
         IN  IF Len(data) # 4 THEN Dimensions("struct.error", 0, 0)
             ELSE Dimensions("None", UnpackBE16(SubSeq(data, 3, 4)),
                             UnpackBE16(SubSeq(data, 1, 2)))
    ELSE IF pos + size < 0 THEN Dimensions("None", 0, 0)
    ELSE LET at == SkipFF(f, pos + size)
         IN  IF at = -1 THEN Dimensions("TypeError", 0, 0)
             ELSE LET len == Slice(f, at + 1, at + 3)
                  IN  IF Len(len) # 2 THEN Dimensions("struct.error", 0, 0)
                      ELSE JpegScan(f, at + 3, UnpackBE16(len) - 2, f[at + 1])

_get_image_dimensions(f) ==
    LET file_header == Slice(f, 0, 24)
        image_type == imghdr_what(f)
    IN  IF Len(file_header) # 24 THEN Dimensions("None", 0, 0)
        ELSE IF image_type = "png"
        THEN IF UnpackBE32(Slice(file_header, 4, 8)) # 218765834
             THEN Dimensions("None", 0, 0)
             ELSE Dimensions("None", UnpackBE32(Slice(file_header, 16, 20)),
                             UnpackBE32(Slice(file_header, 20, 24)))
        ELSE IF image_type = "gif"
        THEN Dimensions("None", UnpackLE16(Slice(file_header, 6, 8)),
                        UnpackLE16(Slice(file_header, 8, 10)))
        ELSE IF image_type = "jpeg" THEN JpegScan(f, 0, 2, 0)
        ELSE Dimensions("None", 0, 0)

\* _generate_iterm2_input: nothing for an empty box or an empty image, the
\* inline-file sequence otherwise
_generate_iterm2_input(dims, max_cols, max_rows) ==
    IF max_cols = 0 \/ max_rows = 0 \/ dims.width = 0 \/ dims.height = 0
    THEN <<>>
    ELSE <<"1337;File">>

(* the files drawn *)

PngFile(width, height) ==
    PNGMagic \o <<0, 0, 0, 13, 73, 72, 68, 82>> \o Pack32(width) \o Pack32(height)
GifFile(width, height) ==
    GIF89a \o <<width % 256, width \div 256, height % 256, height \div 256>>
        \o <<0, 0, 0, 33, 249, 4, 0, 0, 0, 0, 0, 44, 0, 0>>
\* SOI, APP0 (JFIF), a short DQT, SOF0 with the dimensions
JpegFile(width, height) ==
    <<255, 216>>
        \o <<255, 224, 0, 16>> \o JFIF \o <<0, 1, 1, 0, 0, 1, 0, 1, 0, 0>>
        \o <<255, 219, 0, 4, 0, 0>>
        \o <<255, 192, 0, 11, 8>> \o Pack16(height) \o Pack16(width)
        \o <<1, 1, 17, 0>>
\* the offset of the SOF0 marker in JpegFile
JpegSOFOffset == Len(<<255, 216>>) + 18 + 6

Prefixes(f) == {SubSeq(f, 1, n) : n \in 0..Len(f)}
NoHeader == [i \in 1..24 |-> 0]

ITerm2Files ==
    Prefixes(PngFile(640, 480)) \cup Prefixes(GifFile(5, 7))
        \cup Prefixes(JpegFile(640, 480)) \cup {NoHeader}
ITerm2Boxes == {<<10, 5>>, <<0, 5>>, <<10, 0>>}

NoITerm2Result ==
    [op |-> "none", file |-> <<>>, box |-> <<0, 0>>,
     dims |-> Dimensions("None", 0, 0), out |-> <<>>]

IdleITerm2 == it_res = NoITerm2Result

\* draw: the cursor is saved and moved, the input generated and written,
\* the cursor restored; an exception leaves the with block at once
iterm2_draw ==
    \E f \in ITerm2Files, box \in ITerm2Boxes :
        LET dims == _get_image_dimensions(f)
        IN  /\ it_res' = [op |-> "draw", file |-> f, box |-> box, dims |-> dims,
                          out |-> IF dims.raised # "None" THEN <<"sc", "cup">>
                                  ELSE <<"sc", "cup">>
                                       \o _generate_iterm2_input(dims, box[1], box[2])
                                       \o <<"rc">>]
            /\ UNCHANGED notITerm2

\* clear redraws the window; quit is clear(0, 0, 0, 0)
iterm2_clear ==
    /\ it_res' = [NoITerm2Result EXCEPT !.op = "clear", !.out = <<"redrawwin">>]
    /\ UNCHANGED notITerm2

iterm2_quit ==
    /\ it_res' = [NoITerm2Result EXCEPT !.op = "quit", !.out = <<"redrawwin">>]
    /\ UNCHANGED notITerm2

IdleOthers == IdleW3M /\ IdleUeberzug /\ IdleITerm2

----------------------------------------------------------------------------
(* Specifications *)

Init ==
    InitRegistry /\ IdleFmt /\ IdleKitty /\ IdleSixel /\ IdleW3MFont
    /\ IdleOthers

Register ==
    \E nickname \in Nicknames, c \in PluginClasses :
        register_image_displayer(nickname, c)

GetImageDisplayer == \E key \in LookupKeys : get_image_displayer(key)

NextRegistry == Register \/ GetImageDisplayer
SpecRegistry == Init /\ [][NextRegistry]_vars

NextFmt == FormatCmdStr
InitFmtCalls ==
    InitRegistry /\ InitFmt /\ IdleKitty /\ IdleSixel /\ IdleW3MFont
    /\ IdleOthers
SpecFmt == InitFmtCalls /\ [][NextFmt]_vars

NextKitty == KittyInit \/ Draw \/ clear \/ quit
SpecKitty == Init /\ [][NextKitty]_vars

NextW3MFont == GetFontDimensions
InitW3MFontCalls ==
    InitRegistry /\ IdleFmt /\ IdleKitty /\ IdleSixel /\ InitW3MFont
    /\ IdleOthers
SpecW3MFont == InitW3MFontCalls /\ [][NextW3MFont]_vars

NextSixel ==
    \/ SixelDraw \/ SixelInvalidate \/ sixel_clear \/ sixel_quit
    \/ FsRename \/ FsDelete \/ FsReplace
SpecSixel == Init /\ [][NextSixel]_vars

NextKittyResize == KittyInit \/ DrawResize \/ clear \/ quit
SpecKittyResize == Init /\ [][NextKittyResize]_vars

NextKittyAnswers == KittyInit \/ DrawAnswers \/ clear \/ quit
SpecKittyAnswers == Init /\ [][NextKittyAnswers]_vars

NextW3M == W3MDraw \/ W3MClear \/ w3m_quit \/ W3MCompanionExits
SpecW3M == Init /\ [][NextW3M]_vars

NextUeberzug ==
    \/ ueberzug_draw \/ ueberzug_clear \/ ueberzug_quit
    \/ UTimerFires \/ UCompanionExits \/ UKilledExits
\* the thread inside quit and the timer thread keep running, and SIGKILL
\* ends a process
SpecUeberzug ==
    /\ Init /\ [][NextUeberzug]_vars
    /\ WF_vars(UQuitTerminate \/ UQuitStartTimer \/ UQuitCloseStdin
                 \/ UQuitWait \/ UQuitCancel)
    /\ WF_vars(UTimerFires)
    /\ WF_vars(UKilledExits)

NextITerm2 == iterm2_draw \/ iterm2_clear \/ iterm2_quit
SpecITerm2 == Init /\ [][NextITerm2]_vars

Next == NextRegistry \/ NextKitty
Spec == Init /\ [][Next]_vars

----------------------------------------------------------------------------
(* Properties *)

\* the written items include a graphics command with action a
HasCmd(o, a) == \E j \in 1..Len(o) : o[j].kind = "apc" /\ o[j].cmd.a = a

DrawIdx == {j \in 1..Len(hist) : hist[j].op = "draw"}
ClearIdx == {j \in 1..Len(hist) : hist[j].op = "clear"}
\* the step is a call of draw
DrawStep == Len(hist') = Len(hist) + 1 /\ hist'[Len(hist')].op = "draw"

LookedUpUnknown == lookup.outcome # "none" /\ ~lookup.known

\* C1 (as stated): a lookup of a key that was never registered returns a
\* backend instance instead of failing
C1_LookupReturnsInstance ==
    LookedUpUnknown => lookup.outcome = "returned" /\ lookup.instance # "None"

\* C1 (amended): a lookup of a key that was never registered fails at the
\* lookup with the Unsupported condition and yields no instance
C1_LookupFailsUnsupported ==
    LookedUpUnknown =>
        /\ lookup.outcome = "ImgDisplayUnsupportedException"
        /\ lookup.instance = "None"

C1_Witness ==
    /\ lookup.key = "bogus"
    /\ ~lookup.known
    /\ lookup.outcome = "ImgDisplayUnsupportedException"

\* C2 (as stated): the id assigned to each draw is strictly greater than the
\* id assigned to every earlier draw
C2_IdsStrictlyIncreasing ==
    \A i \in DrawIdx, j \in DrawIdx : i < j => hist[i].id < hist[j].id

\* C2 (amended): each draw is assigned the tracked id plus one, and its id is
\* strictly greater than that of every earlier draw since the last clear
C2_IdsIncreaseBetweenClears ==
    /\ \A j \in DrawIdx : hist[j].id = hist[j].before + 1
    /\ \A i \in DrawIdx, j \in DrawIdx :
          (i < j /\ ~\E c \in ClearIdx : i < c /\ c < j) => hist[i].id < hist[j].id

C2_Witness ==
    \E i \in DrawIdx, j \in DrawIdx, c \in ClearIdx :
        /\ i < c /\ c < j
        /\ hist[j].id = hist[i].id

\* C3: image_id is never negative, whatever draws (failed ones included),
\* clears (also before any draw) and quits were made
C3_ImageIdNonNegative == image_id >= 0

C3_Witness ==
    /\ image_id = 0
    /\ \E c \in ClearIdx : hist[c].id = 0 /\ hist[c].by = "clear"
    /\ \E d \in DrawIdx : hist[d].raised # "None"

CeilDiv(a, b) == (a + b - 1) \div b
FmtDone == fmtCall.done /\ fmtCall.has_payload

\* C4 (as stated): a payload of length L yields ceil(L / 2048) fragments
C4_FragmentCountCeil ==
    FmtDone => Len(fmtOut) = CeilDiv(Len(fmtCall.payload), max_slice_len)

\* C4 (amended): a payload of length L >= 1 yields ceil(L / 2048) fragments
\* and an empty payload yields one fragment
C4_FragmentCountAtLeastOne ==
    FmtDone =>
        Len(fmtOut) = IF Len(fmtCall.payload) = 0 THEN 1
                      ELSE CeilDiv(Len(fmtCall.payload), max_slice_len)

C4_Witness ==
    /\ FmtDone
    /\ Len(fmtCall.payload) = 2 * max_slice_len
    /\ Len(fmtOut) = 2

\* C5: every fragment carries at most 2048 payload bytes, all fragments but
\* the last carry m=1 and the last m=0, a payload that fits is sent once, and
\* the fragment payloads joined in order are the payload
C5_FragmentsReassemble ==
    FmtDone =>
        /\ \A j \in 1..Len(fmtOut) : Len(fmtOut[j].payload) <= max_slice_len
        /\ \A j \in 1..(Len(fmtOut) - 1) : fmtOut[j].m = "1"
        /\ Len(fmtOut) >= 1
        /\ fmtOut[Len(fmtOut)].m = "0"
        /\ Len(fmtCall.payload) <= max_slice_len => Len(fmtOut) = 1
        /\ JoinPayloads(fmtOut) = fmtCall.payload

C5_Witness ==
    /\ FmtDone
    /\ Len(fmtCall.payload) = 2 * max_slice_len + 1
    /\ Len(fmtOut) = 3
    /\ fmtOut[3].payload = <<fmtCall.payload[2 * max_slice_len + 1]>>

\* the step is a call of clear or quit
ClearOrQuitStep == result'.op \in {"clear", "quit"} /\ result' # result

\* C6: construction does no terminal I/O, the first draw negotiates, clear
\* and quit never do, and once a negotiation has succeeded no later draw
\* negotiates again and the transfer mode stays what it is
C6_NegotiatesOnceOnFirstDraw ==
    /\ [](result.op = "__init__" =>
            out = <<>> /\ nread = 0 /\ needs_late_init /\ stream = "None")
    /\ [][(DrawStep /\ DrawIdx = {}) =>
            /\ result'.neg
            /\ HasCmd(out', "q")
            /\ \E j \in 1..Len(out') : out'[j].kind = "da1"]_vars
    /\ [][ClearOrQuitStep => ~HasCmd(out', "q") /\ nread' = 0]_vars
    /\ [][negotiated =>
            /\ stream' = stream
            /\ stream \in {"True", "False"}
            /\ DrawStep => ~result'.neg /\ ~HasCmd(out', "q")]_vars

C6_Witness ==
    /\ negotiated
    /\ Len(hist) >= 2
    /\ hist[Len(hist)].op = "draw"
    /\ hist[Len(hist) - 1].op = "draw"
    /\ hist[Len(hist) - 1].sent
    /\ result.op = "draw"
    /\ ~result.neg
    /\ result.sent

NegotiatedInCall == result.op = "draw" /\ result.neg

\* C7: when the negotiation response holds no graphics-protocol prefix, the
\* draw raises Unsupported, writes no transmit command and reads nothing
\* beyond the negotiation response
C7_NoPrefixUnsupportedNoIO ==
    (NegotiatedInCall /\ ~Contains(result.neg_resp, protocol_start)) =>
        /\ result.raised = "Unsupported"
        /\ ~result.sent
        /\ ~HasCmd(out, "T")
        /\ out[Len(out)].kind = "da1"
        /\ nread = Len(result.neg_resp)
        /\ result.ack = <<>>

C7_Witness ==
    /\ NegotiatedInCall
    /\ result.neg_resp = DA1_reply
    /\ result.raised = "Unsupported"
    /\ nread = Len(DA1_reply)

\* the graphics response embedded in resp: from the first prefix up to the
\* end marker that follows it
EmbeddedReply(resp) ==
    LET from == Drop(resp, Find(resp, protocol_start))
    IN  IF Find(from, protocol_end) = -1 THEN <<>>
        ELSE Take(from, Find(from, protocol_end))

\* what the claim says the negotiation makes of a reply
ReplyHandled(reply) ==
    IF Contains(reply, OK_token) THEN stream = "False"
    ELSE IF Contains(reply, EBADF_token) THEN stream = "True"
    ELSE /\ result.raised = "Unsupported"
         /\ needs_late_init
         /\ ~result.sent

\* C8 (as stated): whenever the response contains the prefix anywhere, the
\* embedded reply decides: OK gives file mode, else EBADF gives stream mode,
\* anything else is an error and the backend is not ready
C8_PrefixAnywhereInspected ==
    (NegotiatedInCall /\ Contains(result.neg_resp, protocol_start)) =>
        ReplyHandled(EmbeddedReply(result.neg_resp))

\* C8 (amended): whenever the response begins with the prefix, the reply up
\* to its end marker decides: OK gives file mode, else EBADF gives stream
\* mode, anything else (a reply without end marker too) raises Unsupported
\* and this draw leaves the backend not ready
C8_PrefixAtStartInspected ==
    (NegotiatedInCall /\ StartsWith(result.neg_resp, protocol_start)) =>
        ReplyHandled(EmbeddedReply(result.neg_resp))

C8_Witness ==
    /\ NegotiatedInCall
    /\ result.neg_resp = KittyReply(EBADF_token) \o DA1_reply
    /\ stream = "True"
    /\ ~needs_late_init

\* C9 (as stated): once a draw has raised Unsupported out of negotiation,
\* the instance never becomes ready
C9_FailurePermanent == everUnsupported => needs_late_init /\ ~negotiated

\* C9 (amended): a draw that raised Unsupported out of negotiation leaves
\* the instance uninitialised, and every later draw runs the handshake again
\* until one succeeds
C9_FailureRetried ==
    /\ []((result.op = "draw" /\ result.raised = "Unsupported") =>
            result.neg /\ needs_late_init /\ ~negotiated)
    /\ [][(everUnsupported /\ ~negotiated /\ DrawStep) =>
            result'.neg /\ HasCmd(out', "q")]_vars

C9_Witness ==
    /\ everUnsupported
    /\ negotiated
    /\ ~needs_late_init
    /\ result.op = "draw"
    /\ result.neg
    /\ result.raised = "None"

\* C10: a draw that wrote its fragments reads up to the first end marker;
\* OK in that reply is success, anything else raises ImageDisplayError with
\* the reply, after which the mode is kept and the next draw does not
\* negotiate
C10_AckNonFatal ==
    /\ []((result.op = "draw" /\ result.sent) =>
            /\ HasCmd(out, "T")
            /\ Find(result.ack, protocol_end) = Len(result.ack) - Len(protocol_end)
            /\ nread = Len(result.neg_resp) + Len(result.ack)
            /\ Contains(result.ack, OK_token) => result.raised = "None"
            /\ ~Contains(result.ack, OK_token) =>
                  result.raised = "ImageDisplayError" /\ result.resp = result.ack
            /\ ~needs_late_init)
    /\ [][(result.op = "draw" /\ result.sent /\ result.raised = "ImageDisplayError"
            /\ DrawStep) =>
            /\ ~result'.neg
            /\ ~HasCmd(out', "q")
            /\ stream' = stream
            /\ needs_late_init' = needs_late_init]_vars

C10_Witness ==
    /\ Len(hist) >= 2
    /\ hist[Len(hist) - 1].op = "draw"
    /\ hist[Len(hist) - 1].sent
    /\ hist[Len(hist) - 1].raised = "ImageDisplayError"
    /\ result.op = "draw"
    /\ ~result.neg
    /\ result.sent
    /\ result.raised = "None"


\* the step is a call of clear
ClearStep == result'.op = "clear" /\ hist' # hist
\* the step is a call of quit
QuitStep == result'.op = "quit" /\ result.op # "quit"

\* C11: clear writes exactly one delete command, carrying the current
\* image_id, then lowers image_id by one but not below zero; it reads nothing
\* from the terminal
C11_ClearWritesOneDelete ==
    [][ClearStep =>
        /\ Len(out') = 1
        /\ out'[1].kind = "apc"
        /\ out'[1].cmd = [a |-> "d", i |-> image_id]
        /\ image_id' = (IF image_id >= 1 THEN image_id - 1 ELSE 0)
        /\ nread' = 0
        /\ stdin' = stdin]_vars

C11_Witness ==
    /\ result.op = "clear"
    /\ Len(out) = 1
    /\ out[1].cmd = [a |-> "d", i |-> 2]
    /\ image_id = 1

\* C12: quit ends whatever the state: it writes exactly image_id delete
\* commands, for the ids from image_id down to 1, and returns with image_id 0
C12_QuitDeletesDownToZero ==
    [][QuitStep =>
        /\ Len(out') = image_id
        /\ \A j \in 1..Len(out') :
              /\ out'[j].kind = "apc"
              /\ out'[j].cmd = [a |-> "d", i |-> image_id - j + 1]
        /\ image_id' = 0
        /\ nread' = 0]_vars

C12_Witness ==
    /\ result.op = "quit"
    /\ Len(out) = 2
    /\ out[1].cmd.i = 2
    /\ out[2].cmd.i = 1
    /\ image_id = 0

\* C13: draw's pixel box is (w * pixel width of a cell, h * pixel height of a
\* cell); the image is rescaled only when a side exceeds the box, by the
\* smaller of the two per-axis scales, so the result is no larger than the
\* source, fits in the box and is never upscaled; a 4000x3000 image in a
\* 100x100 cell box with 8x16 pixel cells gives a box of 800x1600 and a result
\* of 800x600
C13_BoxAndDownscale ==
    /\ [][(DrawStep /\ result'.neg /\ result'.boxed) =>
            /\ pix_row' = result'.ws[3] \div result'.ws[2]
            /\ pix_col' = result'.ws[4] \div result'.ws[1]]_vars
    /\ [](result.boxed =>
            LET i == result.img
                b == result.box
                s == result.size
                fits == i.width <= b[1] /\ i.height <= b[2]
                byWidth == b[1] * i.height <= b[2] * i.width
                num == IF byWidth THEN b[1] ELSE b[2]
                den == IF byWidth THEN i.width ELSE i.height
            IN  /\ b = <<result.cells[1] * pix_row, result.cells[2] * pix_col>>
                /\ fits => s = i
                /\ ~fits =>
                      /\ s.width <= b[1] /\ s.height <= b[2]
                      /\ s.width <= i.width /\ s.height <= i.height
                      /\ s.width * den <= num * i.width
                      /\ (s.width + 2) * den > num * i.width
                      /\ s.height * den <= num * i.height
                      /\ (s.height + 2) * den > num * i.height
                /\ (i = [width |-> 4000, height |-> 3000] /\ result.cells = <<100, 100>>
                    /\ pix_row = 8 /\ pix_col = 16) =>
                      b = <<800, 1600>> /\ s = [width |-> 800, height |-> 600])

C13_Witness ==
    /\ result.boxed
    /\ result.img = [width |-> 4000, height |-> 3000]
    /\ result.cells = <<100, 100>>
    /\ pix_row = 8 /\ pix_col = 16
    /\ result.box = <<800, 1600>>
    /\ result.size = [width |-> 800, height |-> 600]

\* C14 (as stated): a draw never computes its pixel box from a zero per-cell
\* pixel size, because a window-size answer with zero pixel dimensions makes
\* the backend probe the cell size some other way
C14_NoBoxFromZeroCell ==
    result.boxed => pix_row # 0 /\ pix_col # 0


C14_ZeroCellBox ==
    /\ result.boxed
    /\ pix_row = 0 /\ pix_col = 0
    /\ result.box = <<0, 0>>

\* C15: with both pixel dimensions reported zero the cell size is the test
\* mode's geometry plus exactly 2 on each axis, divided by columns and rows;
\* with a pixel dimension reported non-zero the test mode is not spawned and
\* the reported dimensions are divided uncorrected
C15_W3MTestModeFallback ==
    w3mFontOut.done =>
        LET ws == w3mFontCall.ws
            t == w3mFontCall.test
            o == w3mFontOut
        IN  /\ o.spawned_test => (ws[3] = 0 /\ ws[4] = 0)
            /\ (o.raised = "None" /\ ws[3] = 0 /\ ws[4] = 0) =>
                  /\ o.spawned_test
                  /\ o.width = (t[1] + 2) \div ws[2]
                  /\ o.height = (t[2] + 2) \div ws[1]
            /\ (o.raised = "None" /\ (ws[3] # 0 \/ ws[4] # 0)) =>
                  /\ ~o.spawned_test
                  /\ o.width = ws[3] \div ws[2]
                  /\ o.height = ws[4] \div ws[1]

C15_Witness ==
    /\ w3mFontOut.done
    /\ w3mFontOut.raised = "None"
    /\ w3mFontOut.spawned_test
    /\ w3mFontCall.ws = <<24, 80, 0, 0>>
    /\ w3mFontCall.test = <<638, 382>>
    /\ w3mFontOut.width = 8
    /\ w3mFontOut.height = 16

\* the step is a call of the sixel draw, of the invalidation handler
SixelDrawStep == sops' = sops + 1 /\ sres'.op = "draw"
SixelInvalidateStep == sops' = sops + 1 /\ sres'.op = "invalidate"

\* C16: a draw whose key was drawn successfully since the last invalidation
\* or quit is a cache hit: it runs no conversion and emits the bytes of the
\* earlier draw, whatever the path is called now; a draw of a file whose
\* inode no cache entry has is a miss, which converts
C16_SameKeyHitsNoConversion ==
    /\ [][(SixelDrawStep /\ sres'.key \in DOMAIN sinceEmit) =>
            /\ sres'.hit
            /\ ~sres'.converted
            /\ nconv' = nconv
            /\ sres'.raised = "None"
            /\ sres'.image = sinceEmit[sres'.key]
            /\ sout' = <<"sc", "cup", sinceEmit[sres'.key], "rc">>]_vars
    /\ [][(SixelDrawStep /\ sres'.ino # 0
             /\ \A k \in DOMAIN cache : k.inode # sres'.ino) =>
            /\ ~sres'.hit
            /\ sres'.raised = "None" => sres'.converted]_vars

C16_Witness ==
    /\ sres.op = "draw"
    /\ sres.hit
    /\ sres.path = "b"
    /\ sres.key \in DOMAIN cache
    /\ cache[sres.key].fh = "a"
    /\ nconv[sres.key] = 1
    /\ sout = <<"sc", "cup", cache[sres.key].image, "rc">>

\* C17 (as stated): whatever draws and invalidations are made, the converter
\* is invoked at most once for each key
C17_AtMostOncePerKey ==
    \A k \in SixelKeys : nconv[k] <= 1

\* C17 (amended): the converter is invoked only by a draw that finds no entry
\* for its key; a successful conversion leaves an entry, entries go away only
\* by an invalidation or quit, and no draw of a key drawn successfully since
\* the last of those converts
C17_ConvertsOnlyOnMiss ==
    /\ [][SixelDrawStep =>
            /\ sres'.converted => sres'.key \notin DOMAIN cache
            /\ sres'.converted => sres'.key \notin DOMAIN sinceEmit
            /\ (sres'.converted /\ sres'.raised = "None") =>
                  sres'.key \in DOMAIN cache'
            /\ sres'.key \in DOMAIN cache => nconv' = nconv]_vars
    /\ [][~SixelDrawStep => nconv' = nconv]_vars
    /\ [][DOMAIN cache \ DOMAIN cache' # {} =>
            sres'.op \in {"invalidate", "quit"}]_vars

C17_Witness ==
    \E k \in SixelKeys :
        /\ nconv[k] = 2
        /\ k \in DOMAIN cache
        /\ sres.op = "draw" /\ sres.key = k /\ sres.converted
        /\ sops = 3

\* C18 (as stated): an invalidation by a path whose inode matches an entry
\* removes exactly one entry
C18_RemovesExactlyOne ==
    [][(SixelInvalidateStep /\ \E k \in DOMAIN cache : k.inode = fs[sres'.path]) =>
        Cardinality(DOMAIN cache \ DOMAIN cache') = 1]_vars

\* C18 (amended): an invalidation by an existing path removes every entry
\* whose inode is the path's current inode, one for each size cached, and
\* exactly those: every other entry is still present, unchanged
C18_RemovesEveryEntryOfInode ==
    [][(SixelInvalidateStep /\ fs[sres'.path] # 0) =>
        /\ DOMAIN cache' = {k \in DOMAIN cache : k.inode # fs[sres'.path]}
        /\ \A k \in DOMAIN cache' : cache'[k] = cache[k]]_vars

C18_Witness ==
    /\ sres.op = "invalidate"
    /\ sres.ino # 0
    /\ cache = EmptyCache
    /\ Cardinality({k \in SixelKeys : k.inode = sres.ino /\ nconv[k] = 1}) = 2

\* C19: an invalidation by a path that does not exist leaves the cache as it
\* is
C19_MissingPathEvictsNothing ==
    [][(SixelInvalidateStep /\ fs[sres'.path] = 0) => cache' = cache]_vars

C19_Witness ==
    /\ sres.op = "invalidate"
    /\ sres.ino = 0
    /\ \E k \in DOMAIN cache : cache[k].fh = sres.path

\* C20: a draw whose conversion exits non-zero or writes nothing raises
\* ImageDisplayError and leaves the cache as it was, without an entry for the
\* key; a later draw of a key without an entry runs the converter again
C20_FailedConversionNotCached ==
    /\ [][(SixelDrawStep /\ sres'.conv \in {"exit", "empty"}) =>
            /\ sres'.raised = "ImageDisplayError"
            /\ sres'.converted
            /\ cache' = cache
            /\ sres'.key \notin DOMAIN cache'
            /\ sout' = <<"sc", "cup">>]_vars
    /\ [][(SixelDrawStep /\ sres'.key # NoKey /\ sres'.key \notin DOMAIN cache
             /\ sres'.conv \in {"ok", "exit", "empty"}) =>
            /\ sres'.converted
            /\ nconv'[sres'.key] = nconv[sres'.key] + 1]_vars

C20_Witness ==
    /\ sops = 2
    /\ sres.op = "draw"
    /\ sres.converted
    /\ sres.raised = "None"
    /\ nconv[sres.key] = 2
    /\ sres.key \in DOMAIN cache


\* the draw of the step raised
FailedDrawStep == DrawStep /\ result'.raised # "None"

\* C30 (as stated): a draw that fails leaves image_id as it was before the
\* call
C30_FailedDrawKeepsId ==
    [][(FailedDrawStep /\ result'.raised \in {"Unsupported", "ImageDisplayError"}) =>
        image_id' = image_id]_vars

\* C30 (amended): a draw that fails leaves image_id one above its value
\* before the call, as a draw that succeeds does, and quit writes a delete
\* for every id up to image_id, the failed draws' ids included
C30_FailedDrawKeepsIncrement ==
    /\ [][DrawStep =>
            /\ image_id' = image_id + 1
            /\ hist'[Len(hist')].id = image_id + 1]_vars
    /\ [][QuitStep =>
            \A j \in DrawIdx :
                (hist[j].raised # "None" /\ hist[j].id <= image_id) =>
                    \E d \in 1..Len(out') : out'[d].cmd = [a |-> "d", i |-> hist[j].id]]_vars

C30_Witness ==
    /\ result.op = "quit"
    /\ Len(hist) = 2
    /\ hist[1].op = "draw"
    /\ hist[1].raised = "Unsupported"
    /\ hist[1].id = 1
    /\ hist[2].by = "quit"
    /\ out = ClearWrites(1)


\* C21 (as stated): an operation that finds its external tool missing (the
\* ImageMagick converter for a sixel draw, the w3mimgdisplay executable for
\* W3M) fails with the Unsupported condition
C21_MissingToolUnsupported ==
    /\ (sres.op = "draw" /\ sres.conv = "missing") => sres.raised = "Unsupported"
    /\ (w3mFontOut.done /\ w3mFontCall.binary_path = "None" /\ ~w3mFontCall.found) =>
          w3mFontOut.raised = "Unsupported"

\* C28 (as stated): in the writes of a draw, Kitty or sixel, every cursor
\* save is followed by a cursor restore, whether the draw returns or raises
C28_SaveFollowedByRestore ==
    /\ sres.op = "draw" =>
          \A i \in 1..Len(sout) :
              sout[i] = "sc" => \E j \in (i + 1)..Len(sout) : sout[j] = "rc"
    /\ result.op = "draw" =>
          \A i \in 1..Len(out) :
              out[i].kind = "sc" => \E j \in (i + 1)..Len(out) : out[j].kind = "rc"


\* the step is a W3M draw or clear that did some I/O
W3MCallStep == w3m_res'.op \in {"draw", "clear"} /\ w3m_io' # w3m_io

\* C22: in the I/O of every W3M draw and clear, every read follows one
\* written and flushed command batch, no batch is written before the reply
\* to the one before it has been read, a call that returns has read a reply
\* for every batch it wrote, and a draw's display command comes after its
\* size query
C22_PingPong ==
    w3m_res.op \in {"draw", "clear"} =>
        /\ \A i \in 1..Len(w3m_io) :
              w3m_io[i].k = "read" =>
                  /\ i >= 3
                  /\ w3m_io[i - 1].k = "flush" /\ w3m_io[i - 1].p = w3m_io[i].p
                  /\ w3m_io[i - 2].k = "write" /\ w3m_io[i - 2].p = w3m_io[i].p
        /\ \A i \in 1..Len(w3m_io), j \in 1..Len(w3m_io) :
              (i < j /\ w3m_io[i].k = "write" /\ w3m_io[j].k = "write") =>
                  \E r \in (i + 1)..(j - 1) : w3m_io[r].k = "read"
        /\ \A i \in 1..Len(w3m_io) :
              w3m_io[i].k = "flush" =>
                  i < Len(w3m_io) /\ w3m_io[i + 1].k = "read"
        /\ w3m_res.raised = "None" =>
              \A i \in 1..Len(w3m_io) :
                  w3m_io[i].k = "write" =>
                      i + 2 <= Len(w3m_io) /\ w3m_io[i + 2].k = "read"
        /\ \A i \in 1..Len(w3m_io) :
              w3m_io[i].k \in {"write", "flush", "read"} =>
                  w3m_io[i].p = w3m_res.used
        /\ \A j \in 1..Len(w3m_io) :
              w3m_io[j].cmd = "0" =>
                  \E i \in 1..(j - 1) : w3m_io[i].k = "write" /\ w3m_io[i].cmd = "5"

C22_Witness ==
    /\ w3m_res.op = "draw"
    /\ w3m_res.displayed
    /\ \E i \in 1..Len(w3m_io) :
          /\ i + 5 <= Len(w3m_io)
          /\ w3m_io[i].k = "write" /\ w3m_io[i].cmd = "5"
          /\ w3m_io[i + 2].k = "read"
          /\ w3m_io[i + 3].k = "write" /\ w3m_io[i + 3].cmd = "0"
          /\ w3m_io[i + 5].k = "read"

C24_BrokenPipeSwallowed ==
    (w3m_res.op = "clear" /\ w3m_res.broken) =>
        /\ w3m_res.raised = "None"
        /\ \A i \in 1..Len(w3m_io) : w3m_io[i].k # "read"

\* C29 (as stated): the width and height in a draw's display command are
\* not negative, not above the native size and not above the pixel box
C29_DisplaySizeWithinBounds ==
    (w3m_res.op = "draw" /\ w3m_res.displayed) =>
        /\ 0 <= w3m_res.w /\ 0 <= w3m_res.h
        /\ w3m_res.w <= w3m_res.native[1] /\ w3m_res.h <= w3m_res.native[2]
        /\ w3m_res.w <= w3m_res.box[1] /\ w3m_res.h <= w3m_res.box[2]

----------------------------------------------------------------------------
(* Ueberzug: spawning and the lines written *)

\* the companion in use cannot take a line: never started, exited, or its
\* input stream closed
UNotUsable ==
    \/ ~u_is_initialized
    \/ u_process \notin u_alive
    \/ u_process \in u_stdin_closed

\* the call that does not fail to start a companion writes and flushes
\* exactly one line with the given action, to a fresh companion when the
\* present one is not usable and to the present one otherwise
UOneLine(action) ==
    u_res'.raised = "None" =>
        IF UNotUsable
        THEN /\ u_process' = u_spawned + 1
             /\ u_process' \in u_alive'
             /\ u_io' = <<UIo("spawn", u_process', ""),
                          UIo("write", u_process', action),
                          UIo("flush", u_process', "")>>
        ELSE /\ u_process' = u_process
             /\ u_io' = <<UIo("write", u_process, action),
                          UIo("flush", u_process, "")>>

UNeverReads ==
    /\ [][u_spawned' # u_spawned => (ueberzug_draw \/ ueberzug_clear)]_vars
    /\ [](\A i \in 1..Len(u_io) : u_io[i].k \in {"spawn", "write", "flush"})

\* C25 as stated: no companion is started before the first use; a draw
\* re-spawns an exited or closed companion and writes and flushes exactly one
\* add line; every clear on an instance that has spawned a companion does
\* the same with one remove line; nothing is ever read from the companion
C25_EveryClearOneLine ==
    /\ UNeverReads
    /\ [][ueberzug_draw => UOneLine("add")]_vars
    /\ [][(ueberzug_clear /\ u_process # 0) => UOneLine("remove")]_vars

\* C25 amended: the clear that finds the input stream of its companion
\* closed writes nothing and starts nothing; every other clear on a spawned
\* companion writes and flushes exactly one remove line
C25_ClearOnOpenStreamOneLine ==
    /\ UNeverReads
    /\ [][ueberzug_draw => UOneLine("add")]_vars
    /\ [][(ueberzug_clear /\ u_process # 0 /\ u_process \notin u_stdin_closed)
            => UOneLine("remove")]_vars
    /\ [][(ueberzug_clear /\ (u_process = 0 \/ u_process \in u_stdin_closed))
            => (u_io' = <<>> /\ u_spawned' = u_spawned
                /\ u_process' = u_process)]_vars

\* a draw has re-spawned the companion, and a clear has then written its line
C25_Witness ==
    /\ u_res.op = "clear"
    /\ u_res.raised = "None"
    /\ u_spawned = 2
    /\ Len(u_io) = 2
    /\ u_io[1] = UIo("write", 2, "remove")

----------------------------------------------------------------------------
(* Ueberzug: quit against its watchdog timer *)

\* quit has returned from the branch that watched a companion
UQuitReturned ==
    /\ u_pc = "idle"
    /\ u_res.op = "quit"
    /\ u_res.watched # 0
    /\ u_res.watched \notin u_alive
    /\ u_timer.cancelled

\* C26: quit of a live companion asks it to terminate and starts the
\* watchdog; only the firing watchdog force-kills, and only a companion that
\* has not exited by then; once the timer is cancelled unfired it never
\* fires; whichever of the companion's exit and the timer comes first, quit
\* eventually returns with the companion exited and the timer cancelled
C26_QuitRacesWatchdog ==
    /\ [][u_killed' # u_killed =>
            /\ u_timer.started /\ ~u_timer.fired /\ u_timer'.fired
            /\ u_timer.target \in u_termed
            /\ u_timer.target \in u_alive
            /\ u_killed' = u_killed \cup {u_timer.target}]_vars
    /\ [][(~u_timer.fired /\ u_timer'.fired /\ u_timer.target \notin u_alive)
            => u_killed' = u_killed]_vars
    /\ [][(u_timer.cancelled /\ ~u_timer.fired) => ~u_timer'.fired]_vars
    /\ []((u_pc = "idle" /\ u_res.op = "quit" /\ u_res.watched # 0)
            => UQuitReturned)
    /\ (u_pc # "idle") ~> UQuitReturned

\* one quit ended by the companion's own exit, a later one by the watchdog
C26_Witness ==
    /\ UQuitReturned
    /\ u_res.watched = 2
    /\ 2 \in u_killed
    /\ u_timer.fired
    /\ 1 \in u_termed
    /\ 1 \notin u_killed

----------------------------------------------------------------------------
(* iTerm2: the header parse *)

\* the header of the file is cut short: fewer than the 24 bytes read, or a
\* JPEG that ends before its SOF marker
ITerm2Truncated(f) ==
    \/ Len(f) < 24
    \/ f \in Prefixes(JpegFile(640, 480)) /\ Len(f) <= JpegSOFOffset

\* C27: a well-formed 640x480 PNG parses as (640, 480); a file whose header
\* is unrecognized or truncated parses as (0, 0) without raising; a draw of
\* a (0, 0) image writes no image sequence
C27_HeaderParse ==
    it_res.op = "draw" =>
        /\ it_res.file = PngFile(640, 480) =>
              it_res.dims = Dimensions("None", 640, 480)
        /\ (imghdr_what(it_res.file) = "None" \/ ITerm2Truncated(it_res.file))
              => it_res.dims = Dimensions("None", 0, 0)
        /\ (it_res.dims.width = 0 /\ it_res.dims.height = 0)
              => \A i \in 1..Len(it_res.out) : it_res.out[i] # "1337;File"

\* a JPEG cut off before its SOF marker has been drawn
C27_TruncatedJpegRaises ==
    /\ it_res.op = "draw"
    /\ it_res.file = SubSeq(JpegFile(640, 480), 1, 24)
    /\ it_res.dims.raised = "TypeError"

----------------------------------------------------------------------------
(* Kitty: the ids of the delete commands *)

\* the delete recorded at c targets an id that a draw assigned before it and
\* that no delete has targeted since that draw
DeletesDrawnId(c) ==
    \E d \in DrawIdx :
        /\ d < c
        /\ hist[d].id = hist[c].id
        /\ \A e \in ClearIdx : (d < e /\ e < c) => hist[e].id # hist[c].id

\* the delete commands a clear or quit writes are the ones it records, in
\* order
DeletesRecorded ==
    [][(ClearStep \/ QuitStep) =>
        /\ Len(out') = Len(hist') - Len(hist)
        /\ \A j \in 1..Len(out') :
              /\ out'[j].kind = "apc"
              /\ hist'[Len(hist) + j].op = "clear"
              /\ out'[j].cmd = [a |-> "d", i |-> hist'[Len(hist) + j].id]]_vars

\* C31 as stated: every delete command written carries an id >= 1 that an
\* earlier draw assigned and that has not been deleted since that draw
C31_DeletesOnlyDrawnIds ==
    /\ DeletesRecorded
    /\ [](\A c \in ClearIdx : hist[c].id >= 1 /\ DeletesDrawnId(c))

\* C31 amended: every delete command written carries the tracked id, which
\* is never negative; an id >= 1 was assigned by an earlier draw and has not
\* been deleted since that draw; a clear at tracked id 0 writes a delete for
\* id 0, which no draw assigned
C31_DeletesTrackedId ==
    /\ DeletesRecorded
    /\ [](\A c \in ClearIdx :
            /\ hist[c].id >= 0
            /\ hist[c].id >= 1 => DeletesDrawnId(c)
            /\ hist[c].id = 0 => hist[c].by = "clear")
    /\ [][ClearStep => hist'[Len(hist')].id = image_id]_vars

\* a drawn image was deleted, and the next clear wrote a delete for id 0
C31_Witness ==
    /\ result.op = "clear"
    /\ Len(hist) >= 3
    /\ hist[Len(hist)].id = 0
    /\ hist[Len(hist) - 1].op = "clear"
    /\ hist[Len(hist) - 1].id = 1
    /\ DeletesDrawnId(Len(hist) - 1)
    /\ out = ClearWrites(0)

----------------------------------------------------------------------------
(* Ueberzug: clear and quit without a live companion *)

\* the call returns at once and leaves the companions, the signals sent and
\* the timer as they were, and writes nothing
UNoOp ==
    /\ u_pc' = "idle"
    /\ u_io' = <<>>
    /\ UNCHANGED <<u_is_initialized, u_process, u_alive, u_stdin_closed,
                   u_spawned, u_termed, u_killed, u_timer>>

\* C32: on an instance that never spawned a companion, clear and quit spawn
\* nothing and write nothing; a quit that finds the companion exited, as a
\* second quit does, sends no terminate and no kill, and once quit has
\* returned no watchdog is left to fire
C32_NoCompanionNoOp ==
    /\ [][((ueberzug_clear \/ UQuitBegin) /\ u_spawned = 0) => UNoOp]_vars
    /\ [][(UQuitBegin /\ u_process # 0 /\ u_process \notin u_alive) => UNoOp]_vars
    /\ [](u_pc = "idle" => ~ENABLED UTimerFires)

\* a quit has run to its end and the quit after it has returned at once
C32_Witness ==
    /\ u_pc = "idle"
    /\ u_res.op = "quit"
    /\ u_res.watched = 0
    /\ u_process # 0
    /\ u_timer.target = u_process
    /\ u_timer.cancelled
    /\ u_process \in u_termed

====
